---- MODULE Spec2Model ----
(***************************************************************************)
(* Model of the Try execution core (src/src/core/Try.ts): one Try instance *)
(* wrapping one callable, the fluent configuration calls, the terminal     *)
(* operations unwrap / value / error / result / then, and the reporter     *)
(* calls they make.  Every "await" of the source is a point where another  *)
(* caller of the same instance can run, so each terminal operation is a    *)
(* small process whose steps are the synchronous segments between awaits.  *)
(***************************************************************************)
EXTENDS Integers, Sequences, FiniteSets, TLC

\* ------------------------------------------------------------------ bounds
\* Number of terminal operations that can be in progress at the same time
\* (callers that invoked a terminal operation and are suspended in it).
MaxInFlight == 2

Ops == 1..MaxInFlight

\* The counters of reporter calls and transformer invocations count up to
\* this number: a counter at MaxCounted stands for "MaxCounted or more".
MaxCounted == 2

CountUp(n, by) == IF n + by > MaxCounted THEN MaxCounted ELSE n + by

\* ------------------------------------------------------- JavaScript values
Undefined == "undefined"
Null == "null"

\* `x` used as a condition (if (x), x && y): undefined, null and '' are falsy.
Truthy(x) == x \notin {Undefined, Null, ""}

\* x ?? y
NullishCoalesce(x, y) == IF x \in {Undefined, Null} THEN y ELSE x

\* Error objects.  `id` is the object's identity, `cause` the id of the
\* error it wraps ("none" for an error thrown by user code).
NoError == [id |-> "none", name |-> "none", message |-> "none", cause |-> "none"]
Boom == [id |-> "e_boom", name |-> "Error", message |-> "boom", cause |-> "none"]
ValidationFailure ==
  [id |-> "e_gql", name |-> "GraphQLError", message |-> "validation error", cause |-> "none"]
CleanupError ==
  [id |-> "e_cleanup", name |-> "Error", message |-> "async finally error", cause |-> "none"]

\* What the wrapped callable can throw or reject with.
CallErrors == {Boom, ValidationFailure}
\* What the wrapped callable can return or resolve to.
CallValues == {"v1"}

\* Arguments of report(), default() and throwThroughErrorTypes() calls.
Messages == {"", "failed"}
DefaultValues == {Null, "fallback"}
IgnoreLists == {<<>>, <<"GraphQLError">>}

\* fn.name of the wrapped callable: a declared function, or an arrow
\* function passed inline (whose name is '').
FunctionNames == {"throwingFunction", ""}

\* Records (objects with string keys) are sets of <<key, value>> pairs with
\* one pair per key.  { ...a, ...b }: the entries of b, and those of a whose
\* key b does not have.
Spread(a, b) == {p \in a : \A q \in b : q[1] # p[1]} \cup b

\* Arguments of tag(name, value) and tags(record) calls.
TagNames == {"k"}
TagValues == {"v", "w"}
TagRecords == {{<<"j", "w">>}, {<<"k", "w">>, <<"j", "w">>}}

\* Arguments of debug(enabled) calls.
DebugFlags == {TRUE, FALSE}

\* Arguments of report() and default(), and the errors of the callable,
\* where the whole fluent interface is exercised.
FluentMessages == {"failed"}
FluentDefaults == {"fallback"}
FluentErrors == {Boom}

\* -------------------------------------------------------------- TryResult
\* The object stored in cachedResult.  `id` is the identity of the object:
\* the number of the callable invocation whose try/catch block built it.
NoResult == [success |-> FALSE, value |-> Undefined, error |-> NoError, id |-> 0]
SuccessResult(v, n) == [success |-> TRUE, value |-> v, error |-> NoError, id |-> n]
FailureResult(e, n) == [success |-> FALSE, value |-> Undefined, error |-> e, id |-> n]

\* ----------------------------------------------------------------- state
VARIABLES
  fnName,           \* this.fn.name
  state,            \* this.state
  cachedResult,     \* this.cachedResult
  config,           \* this.config
  breadcrumbsAdded, \* this.breadcrumbsAdded
  cachedBreadcrumbData, \* this.cachedBreadcrumbData
  ignoreErrorTypes, \* Try.ignoreErrorTypes (static)
  defaultReporter,  \* Try.defaultReporter (static)
  ignoreAtExecution, \* history: Try.ignoreErrorTypes as it was when the outcome was stored
  ops,              \* the terminal operations in progress and where each one is suspended
  fnCalls,          \* how many times the wrapped callable was invoked
  cbStarted,        \* how many times the cleanup callback was invoked
  cbDone,           \* how many of those invocations have completed
  finished,         \* the terminal operation that returned or threw in the latest step
  reporterCalls,    \* the calls made to Try.defaultReporter in the latest step, in order
  reporterUsed,     \* the reporter those calls were made on ("none": no call)
  sentryCalls,      \* the calls that reporter made to the Sentry SDK in the latest step
  addBreadcrumbsCalls, \* how many times Reporter.addBreadcrumbs was called
  transformerCalls, \* how many times a transformer passed to breadcrumbs() was invoked
  returnedRef,      \* what the latest configuration call returned
  tagCall,          \* the tag() or tags() call of the latest step
  args,             \* this.args
  consoleCalls      \* the calls of console.error made in the latest step, in order

vars == <<fnName, state, cachedResult, config, breadcrumbsAdded, cachedBreadcrumbData,
          ignoreErrorTypes, defaultReporter, ignoreAtExecution, ops, fnCalls,
          cbStarted, cbDone, finished, reporterCalls, reporterUsed, sentryCalls,
          addBreadcrumbsCalls, transformerCalls, returnedRef, tagCall,
          args, consoleCalls>>

\* ------------------------------------------- values of arguments and data
\* A JavaScript value as the breadcrumb code sees one: its kind (what typeof
\* and truthiness go by), its text if it is a string, its number if it is a
\* number, its own enumerable properties if it is an object.  "hostile" is
\* an object whose toString() throws.
Value(kind, text, number, props) ==
  [kind |-> kind, text |-> text, number |-> number, props |-> props]

UndefinedValue == Value("undefined", "", 0, {})
NullValue == Value("null", "", 0, {})
FunctionValue == Value("function", "", 0, {})
StringValue(s) == Value("string", s, 0, {})
NumberValue(n) == Value("number", "", n, {})
ObjectValue(props) == Value("object", "", 0, props)
HostileValue == Value("hostile", "", 0, {<<"toString", FunctionValue>>})

\* typeof v
TypeOf(v) == IF v.kind \in {"null", "hostile"} THEN "object" ELSE v.kind

\* `v` used as a condition
TruthyValue(v) ==
  CASE v.kind \in {"undefined", "null"} -> FALSE
    [] v.kind = "string" -> v.text # ""
    [] v.kind = "number" -> v.number # 0
    [] OTHER -> TRUE

\* `v && typeof v === 'object'`
IsObject(v) == TruthyValue(v) /\ TypeOf(v) = "object"

\* obj[key]: undefined for a property the object does not have.
Get(obj, key) ==
  IF \E p \in obj.props : p[1] = key
    THEN (CHOOSE p \in obj.props : p[1] = key)[2]
    ELSE UndefinedValue

\* The decimal text of a natural number, as a template literal or String()
\* renders it.
Digits == <<"0", "1", "2", "3", "4", "5", "6", "7", "8", "9">>

RECURSIVE NumberText(_)
NumberText(n) ==
  IF n < 10 THEN Digits[n + 1] ELSE NumberText(n \div 10) \o Digits[(n % 10) + 1]

\* ------------------------------------------------------ bound arguments
\* this.args of the instances that are configured and run step by step: a
\* call with one object argument.
FirstArg ==
  ObjectValue({<<"userId", StringValue("u1")>>, <<"name", UndefinedValue>>,
               <<"email", NullValue>>})
Args == <<FirstArg>>

\* args[index], undefined outside the array
ArgAt(a, index) ==
  IF index >= 0 /\ index < Len(a) THEN a[index + 1] ELSE UndefinedValue

\* The argument lists of the instances whose breadcrumb context is studied:
\* no argument, one object, an object and a string in both orders, an
\* object whose toString() throws, and null with a number.
ArgLists ==
  {<<>>, <<FirstArg>>, <<FirstArg, StringValue("hello")>>,
   <<StringValue("hello"), FirstArg>>, <<HostileValue, FirstArg>>,
   <<NullValue, NumberValue(42)>>}

\* ------------------------------------------------ breadcrumb configuration
\* An entry of a breadcrumb configuration: a string, a function, an array
\* of strings (type "array"), or an extractor object { param, keys },
\* { param, transform } or { param, as } (type "object", `has` naming the
\* property it carries).  `key` is the string of a string entry and, for an
\* entry of an index-keyed object, the name of the property that holds it.
Entry(type, has, key, keys, param, fn, as) ==
  [type |-> type, has |-> has, key |-> key, keys |-> keys, param |-> param,
   fn |-> fn, as |-> as]

StringEntry(s) == Entry("string", "", s, <<>>, 0, "", "")
FunctionEntry(f) == Entry("function", "", "", <<>>, 0, f, "")
KeysEntry(ks) == Entry("array", "", "", ks, 0, "", "")
KeysExtractor(p, ks) == Entry("object", "keys", "", ks, p, "", "")
TransformExtractor(p, f) == Entry("object", "transform", "", <<>>, p, f, "")
AsExtractor(p, a) == Entry("object", "as", "", <<>>, p, "", a)
MapEntry(name, e) == [e EXCEPT !.key = name]

\* this.config.breadcrumbConfig: unset, an array, or a plain object whose
\* entries are listed in the order Object.entries gives them.
NoBreadcrumbConfig == [defined |-> FALSE, shape |-> "none", entries |-> <<>>]
ArrayConfig(es) == [defined |-> TRUE, shape |-> "array", entries |-> es]
ObjectConfig(es) == [defined |-> TRUE, shape |-> "object", entries |-> es]

\* breadcrumbs(keys) and breadcrumbs(...transformers)
KeyList(ks) == ArrayConfig([n \in 1..Len(ks) |-> StringEntry(ks[n])])
TransformerList(ts) == ArrayConfig([n \in 1..Len(ts) |-> FunctionEntry(ts[n])])

\* Breadcrumb configurations passed to breadcrumbs() where the instance is
\* configured step by step.
KeyLists == {KeyList(<<"userId", "name">>)}
TransformerLists ==
  {TransformerList(<<"transformSpy">>), TransformerList(<<"throwingTransformer">>)}
BreadcrumbConfigs == KeyLists \cup TransformerLists

\* The breadcrumb configurations whose context is studied, of every shape.
KeyListConfigs ==
  {KeyList(<<"userId", "name", "email", "missing">>), KeyList(<<"email">>)}
EmptyConfigs == {ArrayConfig(<<>>), ObjectConfig(<<>>)}
VariadicConfigs ==
  {TransformerList(<<"transformSpy">>),
   TransformerList(<<"throwingTransformer", "transformSpy">>),
   TransformerList(<<"orderId", "transformSpy", "transformSpy">>),
   TransformerList(<<"transformSpy", "transformSpy">>)}
PositionalConfigs ==
  {ArrayConfig(<<StringEntry("first"), KeysEntry(<<"userId", "email">>)>>),
   ArrayConfig(<<KeysEntry(<<"userId", "name">>), StringEntry("second")>>),
   ArrayConfig(<<StringEntry("first"), FunctionEntry("transformSpy")>>),
   ArrayConfig(<<KeysEntry(<<"email", "missing">>)>>),
   ArrayConfig(<<StringEntry("userId"), KeysEntry(<<"userId", "email">>)>>)}
ExtractorConfigs ==
  {ArrayConfig(<<AsExtractor(0, "value"), TransformExtractor(1, "throwingTransformer")>>),
   ArrayConfig(<<AsExtractor(0, "toString"), AsExtractor(1, "type")>>),
   ArrayConfig(<<AsExtractor(0, "value"), AsExtractor(5, "value"), AsExtractor(-1, "value")>>),
   ArrayConfig(<<KeysExtractor(1, <<"userId", "name">>), AsExtractor(0, "length")>>),
   ArrayConfig(<<AsExtractor(10, "type"), KeysExtractor(0, <<"userId">>)>>),
   ArrayConfig(<<KeysExtractor(0, <<"email", "name">>)>>),
   ArrayConfig(<<TransformExtractor(0, "orderId"), TransformExtractor(5, "transformSpy")>>),
   ArrayConfig(<<TransformExtractor(1, "transformSpy"), TransformExtractor(0, "transformSpy")>>)}
IndexKeyedConfigs ==
  {ObjectConfig(<<MapEntry("0", KeysEntry(<<"userId", "email">>)),
                  MapEntry("1", FunctionEntry("orderId"))>>),
   ObjectConfig(<<MapEntry("1", FunctionEntry("throwingTransformer")),
                  MapEntry("5", KeysEntry(<<"userId">>)),
                  MapEntry("-1", FunctionEntry("transformSpy"))>>),
   ObjectConfig(<<MapEntry("0", FunctionEntry("transformSpy")),
                  MapEntry("10", FunctionEntry("transformSpy"))>>),
   ObjectConfig(<<MapEntry("1", KeysEntry(<<"name", "email">>))>>),
   ObjectConfig(<<MapEntry("0", FunctionEntry("transformSpy")),
                  MapEntry("1", FunctionEntry("transformSpy"))>>)}
AllShapeConfigs ==
  KeyListConfigs \cup EmptyConfigs \cup VariadicConfigs \cup PositionalConfigs
    \cup ExtractorConfigs \cup IndexKeyedConfigs

NoBreadcrumbData == [defined |-> FALSE, entries |-> {}]

\* ----------------------------------------------------- diagnostic channel
\* A call of console.error: console.error(prefix, error), or
\* console.error(error) with the error as the only argument (prefix "").
ConsoleCall(prefix, error) == [prefix |-> prefix, error |-> error]

\* Mutant of LogsIfDebug: the flag is not consulted.
LogsAlways(debug, calls) == calls

\* `if (debug) { console.error(...) }`
LogsIfDebug(debug, calls) == IF debug THEN calls ELSE <<>>

\* ---------------------------------------------------------- transformers
\* What a call of user code hands back: a record, or a throw.
Gives(entries) == [threw |-> FALSE, entries |-> entries]
Throws == [threw |-> TRUE, entries |-> {}]

\* The error a transformer throws, and the BreadcrumbTransformationError
\* that wraps what was caught.
TransformerError ==
  [id |-> "e_transformer", name |-> "Error", message |-> "transformer error",
   cause |-> "none"]
TransformationError ==
  [id |-> "e_transformation", name |-> "BreadcrumbTransformationError",
   message |-> "Breadcrumb transformation failed", cause |-> "e_transformer"]

\* String(v) calls toString() of an object, which can throw; otherwise it
\* gives the text of the value.
StringThrows(v) == v.kind = "hostile"
StringOf(v) ==
  CASE v.kind = "string" -> v.text
    [] v.kind = "number" -> NumberText(v.number)
    [] v.kind = "object" -> "[object Object]"
    [] OTHER -> v.kind

\* The transformer functions: (value) => ({ transformed: value }),
\* (id) => ({ orderId: String(id) }) and
\* () => { throw new Error('transformer error') }.
Transformer(t, value) ==
  CASE t = "transformSpy" -> Gives({<<"transformed", value>>})
    [] t = "orderId" ->
         IF StringThrows(value) THEN Throws
         ELSE Gives({<<"orderId", StringValue(StringOf(value))>>})
    [] OTHER -> Throws

\* The result of an extraction or of one of its steps: the data, how many
\* transformer functions were invoked, whether one of them let a throw
\* escape, and the calls of console.error.
Extracted(entries, calls, threw, logs) ==
  [entries |-> entries, calls |-> calls, threw |-> threw, logs |-> logs]

Nothing == Extracted({}, 0, FALSE, <<>>)

\* Mutant of Apply: a throw of the transformer propagates.
ApplyRethrows(t, value, debug) ==
  Extracted(Transformer(t, value).entries, 1, Transformer(t, value).threw, <<>>)

\* TransformerRegistry.apply: the transformer's record; {} if it throws, and
\* then a log if debug is on.
Apply(t, value, debug) ==
  IF Transformer(t, value).threw
    THEN Extracted({}, 1, FALSE,
           LogsIfDebug(debug,
             <<ConsoleCall("Error in breadcrumb transformer:", TransformationError)>>))
    ELSE Extracted(Transformer(t, value).entries, 1, FALSE, <<>>)

\* `param${paramIndex}`
ParamKey(paramIndex) == "param" \o NumberText(paramIndex)

\* PredefinedTransformers[transformerType](value, paramIndex); a type that
\* is none of the four has no function to call.
PredefinedTransformers(transformerType, value, paramIndex) ==
  CASE transformerType = "length" ->
         IF value.kind = "string"
           THEN Gives({<<ParamKey(paramIndex) \o "_length", NumberValue(Len(value.text))>>})
         ELSE IF IsObject(value)
           THEN Gives({<<ParamKey(paramIndex) \o "_length",
                         NumberValue(Cardinality(value.props))>>})
         ELSE Gives({})
    [] transformerType = "type" ->
         Gives({<<ParamKey(paramIndex) \o "_type", StringValue(TypeOf(value))>>})
    [] transformerType = "value" ->
         Gives({<<ParamKey(paramIndex) \o "_value", value>>})
    [] transformerType = "toString" ->
         IF StringThrows(value) THEN Throws
         ELSE Gives({<<ParamKey(paramIndex) \o "_string", StringValue(StringOf(value))>>})
    [] OTHER -> Throws

\* Mutant of ApplyPredefined: a throw of the predefined transformer
\* propagates.
ApplyPredefinedRethrows(transformerType, value, paramIndex, debug) ==
  Extracted(PredefinedTransformers(transformerType, value, paramIndex).entries, 0,
            PredefinedTransformers(transformerType, value, paramIndex).threw, <<>>)

\* TransformerRegistry.applyPredefined
ApplyPredefined(transformerType, value, paramIndex, debug) ==
  IF PredefinedTransformers(transformerType, value, paramIndex).threw
    THEN Extracted({}, 0, FALSE,
           LogsIfDebug(debug,
             <<ConsoleCall("Error in predefined transformer:", TransformationError)>>))
    ELSE Extracted(PredefinedTransformers(transformerType, value, paramIndex).entries,
                   0, FALSE, <<>>)

\* Mutant of ValidateParameterIndex: no upper limit.
ValidateParameterIndexNoLimit(paramIndex, argsLength) == paramIndex >= 0

\* TransformerRegistry.validateParameterIndex
ValidateParameterIndex(paramIndex, argsLength) ==
  paramIndex >= 0 /\ paramIndex < argsLength

\* -------------------------------------------------------------- extraction
\* Mutant of ExtractFromKeys: null is left out as undefined is.
ExtractFromKeysDefinedOnly(obj, keys) ==
  {<<keys[n], Get(obj, keys[n])>> : n \in {m \in 1..Len(keys) :
                      Get(obj, keys[m]).kind \notin {"undefined", "null"}}}

\* BreadcrumbExtractorUtil.extractFromKeys: obj[key] of every listed key
\* for which it is not undefined.
ExtractFromKeys(obj, keys) ==
  {<<keys[n], Get(obj, keys[n])>> : n \in {m \in 1..Len(keys) :
                      Get(obj, keys[m]).kind # "undefined"}}

\* Mutant of Merged: on a key collision the earlier value stays.
MergedEarlierWins(acc, step) ==
  Extracted(IF step.threw THEN acc.entries ELSE Spread(step.entries, acc.entries),
            acc.calls + step.calls, step.threw, acc.logs \o step.logs)

\* `{ ...breadcrumbData, ...step }` for the result of one step; a throw
\* that escapes the step ends the extraction.
Merged(acc, step) ==
  Extracted(IF step.threw THEN acc.entries ELSE Spread(acc.entries, step.entries),
            acc.calls + step.calls, step.threw, acc.logs \o step.logs)

\* Key extraction from a value that has to be an object.
KeysOfObject(value, keys) ==
  IF IsObject(value) THEN Extracted(ExtractFromKeys(value, keys), 0, FALSE, <<>>)
                     ELSE Nothing

\* BreadcrumbExtractorUtil.extractFromParameter
ExtractFromParameter(extractor, a, debug) ==
  IF ~ValidateParameterIndex(extractor.param, Len(a)) THEN Nothing
  ELSE CASE extractor.has = "keys" -> KeysOfObject(ArgAt(a, extractor.param), extractor.keys)
         [] extractor.has = "transform" ->
              Apply(extractor.fn, ArgAt(a, extractor.param), debug)
         [] extractor.has = "as" ->
              ApplyPredefined(extractor.as, ArgAt(a, extractor.param), extractor.param, debug)
         [] OTHER -> Nothing

\* Mutant of ArrayEntryStep: an extractor object is applied to the argument
\* at its own position in the array.
ArrayEntryStepByPosition(entry, index, a, debug) ==
  CASE entry.type = "object" ->
         ExtractFromParameter([entry EXCEPT !.param = index], a, debug)
    [] entry.type = "string" ->
         Extracted({<<entry.key, ArgAt(a, index)>>}, 0, FALSE, <<>>)
    [] entry.type = "array" -> KeysOfObject(ArgAt(a, index), entry.keys)
    [] OTHER -> Nothing

\* extractFromArray(): the body of config.forEach((entry, index) => ...)
ArrayEntryStep(entry, index, a, debug) ==
  CASE entry.type = "object" -> ExtractFromParameter(entry, a, debug)
    [] entry.type = "string" ->
         Extracted({<<entry.key, ArgAt(a, index)>>}, 0, FALSE, <<>>)
    [] entry.type = "array" -> KeysOfObject(ArgAt(a, index), entry.keys)
    [] OTHER -> Nothing

\* BreadcrumbExtractorUtil.extractFromArray, from the n-th entry on with the
\* data gathered so far.
RECURSIVE ExtractFromArray(_, _, _, _, _)
ExtractFromArray(es, a, debug, n, acc) ==
  IF n > Len(es) \/ acc.threw THEN acc
  ELSE ExtractFromArray(es, a, debug, n + 1,
                        Merged(acc, ArrayEntryStep(es[n], n - 1, a, debug)))

\* parseInt(paramIndex, 10) of a property name that is a decimal integer.
ParseInt(name) ==
  IF name = "-1" THEN -1
  ELSE CHOOSE n \in 0..10 : NumberText(n) = name

\* BreadcrumbExtractorUtil.extractFromParameterConfig
ExtractFromParameterConfig(paramIndex, entry, a, debug) ==
  CASE entry.type = "array" -> KeysOfObject(ArgAt(a, paramIndex), entry.keys)
    [] entry.type = "function" -> Apply(entry.fn, ArgAt(a, paramIndex), debug)
    [] OTHER -> Nothing

\* extractFromObject(): the body of the loop over Object.entries(config)
ObjectEntryStep(entry, a, debug) ==
  IF ValidateParameterIndex(ParseInt(entry.key), Len(a))
    THEN ExtractFromParameterConfig(ParseInt(entry.key), entry, a, debug)
    ELSE Nothing

\* BreadcrumbExtractorUtil.extractFromObject, from the n-th entry on.
RECURSIVE ExtractFromObject(_, _, _, _, _)
ExtractFromObject(es, a, debug, n, acc) ==
  IF n > Len(es) \/ acc.threw THEN acc
  ELSE ExtractFromObject(es, a, debug, n + 1,
                         Merged(acc, ObjectEntryStep(es[n], a, debug)))

\* Mutant of TransformerStep: a transformer beyond the arguments is invoked
\* with undefined.
TransformerStepUnbounded(entry, index, a, debug) ==
  Apply(entry.fn, ArgAt(a, index), debug)

\* extract(), transformer array: the body of
\* transformers.forEach((transformer, index) => ...)
TransformerStep(entry, index, a, debug) ==
  IF index < Len(a) THEN Apply(entry.fn, ArgAt(a, index), debug) ELSE Nothing

\* extract(), transformer array, from the n-th transformer on.
RECURSIVE ExtractTransformers(_, _, _, _, _)
ExtractTransformers(ts, a, debug, n, acc) ==
  IF n > Len(ts) \/ acc.threw THEN acc
  ELSE ExtractTransformers(ts, a, debug, n + 1,
                           Merged(acc, TransformerStep(ts[n], n - 1, a, debug)))

\* The strings of an array of string entries.
StringsOf(es) == [n \in 1..Len(es) |-> es[n].key]

\* Mutant of IsStringArray: one string entry is enough.
IsStringArrayBySome(cfg) ==
  /\ cfg.shape = "array"
  /\ \E n \in 1..Len(cfg.entries) : cfg.entries[n].type = "string"

\* isStringArray(config)
IsStringArray(cfg) ==
  /\ cfg.shape = "array"
  /\ Len(cfg.entries) > 0
  /\ \A n \in 1..Len(cfg.entries) : cfg.entries[n].type = "string"

\* isTransformerArray(config)
IsTransformerArray(cfg) ==
  /\ cfg.shape = "array"
  /\ Len(cfg.entries) > 0
  /\ \A n \in 1..Len(cfg.entries) : cfg.entries[n].type = "function"

\* BreadcrumbExtractorUtil.extract
Extract(cfg, a, debug) ==
  IF IsStringArray(cfg)
    THEN KeysOfObject(ArgAt(a, 0), StringsOf(cfg.entries))
  ELSE IF IsTransformerArray(cfg)
    THEN ExtractTransformers(cfg.entries, a, debug, 1, Nothing)
  ELSE IF cfg.shape = "array"
    THEN ExtractFromArray(cfg.entries, a, debug, 1, Nothing)
  ELSE IF cfg.shape = "object"
    THEN ExtractFromObject(cfg.entries, a, debug, 1, Nothing)
  ELSE Nothing

\* Try.extractAllBreadcrumbData of an instance with configuration cfg and
\* bound arguments a.
ExtractAllBreadcrumbData(cfg, a) == Extract(cfg.breadcrumbConfig, a, cfg.debug)

\* Mutant of BreadcrumbExtraction: the context is computed again by every
\* terminal operation of an instance with a breadcrumb configuration.
BreadcrumbExtractionUncached(emit, cached, cfg, a) ==
  IF cfg.breadcrumbConfig.defined
    THEN ExtractAllBreadcrumbData(cfg, a)
    ELSE Extracted(cached.entries, 0, FALSE, <<>>)

\* addBreadcrumbsIfConfigured(): the extraction it runs once it is past its
\* early return (emit), `if (!this.cachedBreadcrumbData)`, and the data it
\* goes on with.
BreadcrumbExtraction(emit, cached, cfg, a) ==
  IF emit /\ ~cached.defined
    THEN ExtractAllBreadcrumbData(cfg, a)
    ELSE Extracted(cached.entries, 0, FALSE, <<>>)

\* ------------------------------------------------- pieces of the methods
\* Mutant of ShortCircuit: the outcome is reused only once every cleanup
\* callback has completed.
ShortCircuitAfterCleanup(st, cached) ==
  st = "executed" /\ cached.id # 0 /\ cbDone = cbStarted

\* Mutant of ShortCircuit: only a successful outcome is reused.
ShortCircuitSuccessOnly(st, cached) ==
  st = "executed" /\ cached.id # 0 /\ cached.success

\* execute(): `this.state === 'executed' && this.cachedResult`
ShortCircuit(st, cached) == st = "executed" /\ cached.id # 0

\* Mutant of ExecuteReturn: a throw of the cleanup callback replaces the
\* outcome.
ExecuteReturnCleanupError(cached, cleanupThrew) ==
  IF cleanupThrew
    THEN [success |-> FALSE, value |-> Undefined, error |-> CleanupError, id |-> cached.id]
    ELSE cached

\* execute(): what `return this.cachedResult` yields after the cleanup
\* callback settled; a throw of the callback is caught and dropped.
ExecuteReturn(cached, cleanupThrew) == cached

\* Mutant of ShouldCapture: unwrap() reports every failure.
ShouldCaptureAlways(message) == TRUE

\* unwrap(): `const shouldCapture = this.config.message`
ShouldCapture(message) == Truthy(message)

\* value(): `if (this.config.message)`
ShouldReport(message) == Truthy(message)

\* Mutant of ShouldWrap: the allow-list is not consulted.
ShouldWrapIgnoringList(message, ignore, errorName) == Truthy(message)

\* unwrap(): `this.config.message && !Try.ignoreErrorTypes.includes(error.name)`
ShouldWrap(message, ignore, errorName) ==
  Truthy(message) /\ \A n \in 1..Len(ignore) : ignore[n] # errorName

\* Mutant of CreateWrappedError: the wrapper keeps the original message.
CreateWrappedErrorKeepsMessage(error, message) ==
  [id |-> "e_wrapped", name |-> "Error", message |-> error.message, cause |-> error.id]

\* Reporter.createWrappedError: a new Error(message) whose cause is `error`.
CreateWrappedError(error, message) ==
  [id |-> "e_wrapped", name |-> "Error", message |-> message, cause |-> error.id]

\* value(): `this.config.defaultValue ?? undefined`
DefaultOrUndefined(defaultValue) == NullishCoalesce(defaultValue, Undefined)

\* Mutant of ErrorOf: the condition is inverted.
ErrorOfInverted(result) == IF result.success THEN result.error ELSE NoError

\* error(): `result.success ? undefined : result.error` (NoError stands for
\* undefined).
ErrorOf(result) == IF result.success THEN NoError ELSE result.error

\* Mutant of HasCleanup: the callback is never invoked.
HasCleanupNever(cfg) == FALSE

\* execute(): `this.config.finallyCallback?.()` invokes a callback
HasCleanup(cfg) == Truthy(cfg.finallyCallback)

\* execute(), catch block: `if (this.config.debug) { console.error(e) }`
CatchLog(cached, cfg) ==
  IF cached.success THEN <<>>
  ELSE LogsIfDebug(cfg.debug, <<ConsoleCall("", cached.error)>>)

\* execute(), catch of the cleanup callback: `if (this.config.debug) {
\* console.error('Error in finally callback', err) }`
CleanupLog(threw, cfg) ==
  IF threw THEN LogsIfDebug(cfg.debug, <<ConsoleCall("Error in finally callback", CleanupError)>>)
  ELSE <<>>

\* Mutant of EmitsBreadcrumbs: an empty configuration counts as none.
EmitsBreadcrumbsNonEmpty(cfg, added) ==
  cfg.breadcrumbConfig.defined /\ Len(cfg.breadcrumbConfig.entries) > 0 /\ ~added

\* addBreadcrumbsIfConfigured(): whether it gets past its early return.
EmitsBreadcrumbs(cfg, added) == cfg.breadcrumbConfig.defined /\ ~added

\* Mutant of FunctionNameOrAnonymous: no fallback for an empty name.
FunctionNameRaw(name) == name

\* addBreadcrumbsIfConfigured(): `this.fn.name || 'anonymous'`
FunctionNameOrAnonymous(name) == IF Truthy(name) THEN name ELSE "anonymous"

\* A call of a method of Try.defaultReporter with its arguments (NoError,
\* Undefined, {} and NoBreadcrumbData for the arguments the method lacks).
ReporterCall(method, error, message, tags, data, functionName) ==
  [method |-> method, error |-> error, message |-> message, tags |-> tags,
   data |-> data, functionName |-> functionName]

\* addBreadcrumbsIfConfigured(): Reporter.addBreadcrumbs(data, functionName)
AddBreadcrumbsCall(data, name) ==
  ReporterCall("addBreadcrumbs", NoError, Undefined, {}, data,
               FunctionNameOrAnonymous(name))

\* Mutant of ReportCall: the tags are left out of the report.
ReportCallWithoutTags(error, cfg, data, name) ==
  ReporterCall("report", error, cfg.message, {}, data, name)

\* reportError(): Reporter.report(error, { message, tags, breadcrumbData,
\* functionName })
ReportCall(error, cfg, data, name) ==
  ReporterCall("report", error, cfg.message, cfg.tags, data, name)

\* The tag that the Sentry-backed reporters add when they forward a report.
LibraryTag == <<"library", "@power-rent/try-catch">>

\* SentryReporter.report: the tags it hands to Sentry.captureException,
\* `{ ...config.tags, library: '@power-rent/try-catch' }`
SentryCaptureTags(tags) == Spread(tags, {LibraryTag})

\* unwrap(): Reporter.createWrappedError(result.error, this.config.message)
CreateWrappedErrorCall(error, message) ==
  ReporterCall("createWrappedError", error, message, {}, NoBreadcrumbData, Undefined)

\* Mutant of CallsOf: the failure is reported before the breadcrumbs are
\* emitted.
CallsOfReportFirst(emit, reports, wraps, error, cfg, data, name) ==
  (IF reports = 1 THEN <<ReportCall(error, cfg, data, name)>> ELSE <<>>)
  \o (IF emit THEN <<AddBreadcrumbsCall(data, name)>> ELSE <<>>)
  \o (IF wraps = 1 THEN <<CreateWrappedErrorCall(error, cfg.message)>> ELSE <<>>)

\* The reporter calls of one synchronous segment of a terminal operation, in
\* the order the code makes them.
CallsOf(emit, reports, wraps, error, cfg, data, name) ==
  (IF emit THEN <<AddBreadcrumbsCall(data, name)>> ELSE <<>>)
  \o (IF reports = 1 THEN <<ReportCall(error, cfg, data, name)>> ELSE <<>>)
  \o (IF wraps = 1 THEN <<CreateWrappedErrorCall(error, cfg.message)>> ELSE <<>>)

\* ------------------------------------------------------- the reporters
\* The reporters that setDefaultReporter() is given, by class.
NoopReporter == "NoopReporter"
SentryReporter == "SentryReporter"
BrowserReporter == "BrowserReporter"
Reporters == {NoopReporter, SentryReporter, BrowserReporter}

\* The calls of the Sentry SDK are records: Sentry.addBreadcrumb({ message,
\* data }) or Sentry.captureException(error, { tags }).
\* SentryReporter.addBreadcrumbs, BrowserReporter.addBreadcrumbs:
\* `functionName = 'anonymous'`, Sentry.addBreadcrumb({ message: `Calling
\* ${functionName} function`, data })
SentryAddBreadcrumbs(data, functionName) ==
  <<[method |-> "addBreadcrumb",
     message |-> "Calling " \o (IF functionName = Undefined THEN "anonymous"
                                ELSE functionName) \o " function",
     data |-> data.entries, error |-> NoError, tags |-> {}]>>

\* report() of both: Sentry.captureException(errorToReport, { tags })
SentryCaptureException(error, message, tags) ==
  <<[method |-> "captureException", message |-> Undefined, data |-> {},
     error |-> IF Truthy(message) THEN CreateWrappedError(error, message) ELSE error,
     tags |-> SentryCaptureTags(tags)]>>

\* SentryReporter.report: `if (config.breadcrumbData &&
\* Object.keys(config.breadcrumbData).length > 0) this.addBreadcrumbs(...)`,
\* then the exception is captured.
SentryReporterReport(c) ==
  (IF c.data.defined /\ c.data.entries # {}
     THEN SentryAddBreadcrumbs(c.data, c.functionName) ELSE <<>>)
  \o SentryCaptureException(c.error, c.message, c.tags)

\* What the reporter does with the calls made on it, in order: its calls of
\* the Sentry SDK.  BrowserReporter.report captures the exception and adds
\* no breadcrumb; NoopReporter makes no call, and createWrappedError makes
\* none.
RECURSIVE ReporterDoes(_, _)
ReporterDoes(reporter, calls) ==
  IF calls = <<>> THEN <<>>
  ELSE LET c == Head(calls) IN
       (CASE reporter = SentryReporter /\ c.method = "report" -> SentryReporterReport(c)
          [] reporter = BrowserReporter /\ c.method = "report" ->
               SentryCaptureException(c.error, c.message, c.tags)
          [] reporter \in {SentryReporter, BrowserReporter}
             /\ c.method = "addBreadcrumbs" ->
               SentryAddBreadcrumbs(c.data, c.functionName)
          [] OTHER -> <<>>)
       \o ReporterDoes(reporter, Tail(calls))

\* Mutant of CalledReporter: the calls go to the reporter that was the
\* default when the instance was constructed.
CalledReporterOfConstruction(current) == NoopReporter

\* `Try.defaultReporter.report(...)`, `Try.defaultReporter.addBreadcrumbs(...)`,
\* `Try.defaultReporter.createWrappedError(...)`: the static field is read
\* when the call is made.
CalledReporter(current) == current

\* The step makes `calls` on the default reporter.
Calls(calls) ==
  /\ reporterCalls' = calls
  /\ reporterUsed' = IF calls = <<>> THEN "none" ELSE CalledReporter(defaultReporter)
  /\ sentryCalls' = ReporterDoes(CalledReporter(defaultReporter), calls)

\* Mutant of AllowListRead: the allow-list is the one of the time when the
\* callable ran.
AllowListOfExecution(current, atExecution) == atExecution

\* unwrap(): `Try.ignoreErrorTypes.includes(...)` reads the static field in
\* the throw statement.
AllowListRead(current, atExecution) == current

\* References to Try instances: the instance under study, and no reference.
This == "this"
NoRef == "none"

\* Mutant of SetConfigReturn: the call returns a fresh copy.
SetConfigReturnsCopy(self) == "copy"

\* setConfig(): `return this`
SetConfigReturn(self) == self

\* The tag() or tags() call of a step: the record it merges in.
NoTagCall == [made |-> FALSE, record |-> {}]
TagCallOf(record) == [made |-> TRUE, record |-> record]

\* What a terminal operation hands to its caller.
Ret(how, v, e, r) == [how |-> how, value |-> v, error |-> e, result |-> r]
NoRet == Ret("none", Undefined, NoError, NoResult)
Returned(v) == Ret("return", v, NoError, NoResult)
Thrown(e) == Ret("throw", Undefined, e, NoResult)

Kinds == {"unwrap", "value", "error", "result", "then"}

\* A terminal operation in progress.  call: the number of its invocation of
\* the callable (0: none); cb: its execute() invoked the cleanup callback
\* and awaits it; cbThrew: that callback threw; result: what its execute()
\* returned; message: this.config.message as the operation read it after
\* execute() (unwrap's shouldCapture); crumbs: it called
\* Reporter.addBreadcrumbs.
IdleOp ==
  [kind |-> "none", pc |-> "idle", call |-> 0, cb |-> FALSE, cbThrew |-> FALSE,
   result |-> NoResult, message |-> Undefined, crumbs |-> FALSE]

InFlight(o) == o.pc # "idle"

\* The record of a terminal operation that has just returned or thrown.
NoFinish ==
  [kind |-> "none", call |-> 0, cbThrew |-> FALSE, result |-> NoResult,
   message |-> Undefined, ret |-> NoRet, reports |-> 0, crumbs |-> 0,
   wraps |-> 0]

\* ------------------------------------------------------------------ Init
\* constructor: config = { tags: {} }, state = 'pending'.  (config.debug is
\* undefined, which every reader of the flag treats as false.)
Init ==
  /\ state = "pending"
  /\ cachedResult = NoResult
  /\ fnName = "throwingFunction"
  /\ config = [message |-> Undefined, defaultValue |-> Undefined,
               finallyCallback |-> Undefined, breadcrumbConfig |-> NoBreadcrumbConfig,
               tags |-> {}, debug |-> FALSE]
  /\ breadcrumbsAdded = FALSE
  /\ cachedBreadcrumbData = NoBreadcrumbData
  /\ ignoreErrorTypes = <<>>
  /\ defaultReporter = NoopReporter
  /\ ignoreAtExecution = <<>>
  /\ ops = [i \in Ops |-> IdleOp]
  /\ fnCalls = 0
  /\ cbStarted = 0
  /\ cbDone = 0
  /\ finished = NoFinish
  /\ reporterCalls = <<>>
  /\ reporterUsed = "none"
  /\ sentryCalls = <<>>
  /\ addBreadcrumbsCalls = 0
  /\ transformerCalls = 0
  /\ returnedRef = NoRef
  /\ tagCall = NoTagCall
  /\ args = Args
  /\ consoleCalls = <<>>

\* The same for an instance that wraps any callable, declared or anonymous.
InitAnyCallable ==
  /\ fnName \in FunctionNames
  /\ state = "pending"
  /\ cachedResult = NoResult
  /\ config = [message |-> Undefined, defaultValue |-> Undefined,
               finallyCallback |-> Undefined, breadcrumbConfig |-> NoBreadcrumbConfig,
               tags |-> {}, debug |-> FALSE]
  /\ breadcrumbsAdded = FALSE
  /\ cachedBreadcrumbData = NoBreadcrumbData
  /\ ignoreErrorTypes = <<>>
  /\ defaultReporter = NoopReporter
  /\ ignoreAtExecution = <<>>
  /\ ops = [i \in Ops |-> IdleOp]
  /\ fnCalls = 0
  /\ cbStarted = 0
  /\ cbDone = 0
  /\ finished = NoFinish
  /\ reporterCalls = <<>>
  /\ reporterUsed = "none"
  /\ sentryCalls = <<>>
  /\ addBreadcrumbsCalls = 0
  /\ transformerCalls = 0
  /\ returnedRef = NoRef
  /\ tagCall = NoTagCall
  /\ args = Args
  /\ consoleCalls = <<>>

\* An instance made with any of the argument lists and given any of the
\* breadcrumb configurations, with debug on or off, before its first
\* terminal operation.
InitExtract ==
  /\ fnName = "throwingFunction"
  /\ args \in ArgLists
  /\ state = "pending"
  /\ cachedResult = NoResult
  /\ \E c \in AllShapeConfigs, d \in BOOLEAN :
       config = [message |-> Undefined, defaultValue |-> Undefined,
                 finallyCallback |-> Undefined, breadcrumbConfig |-> c,
                 tags |-> {}, debug |-> d]
  /\ breadcrumbsAdded = FALSE
  /\ cachedBreadcrumbData = NoBreadcrumbData
  /\ ignoreErrorTypes = <<>>
  /\ defaultReporter = NoopReporter
  /\ ignoreAtExecution = <<>>
  /\ ops = [i \in Ops |-> IdleOp]
  /\ fnCalls = 0
  /\ cbStarted = 0
  /\ cbDone = 0
  /\ finished = NoFinish
  /\ reporterCalls = <<>>
  /\ reporterUsed = "none"
  /\ sentryCalls = <<>>
  /\ addBreadcrumbsCalls = 0
  /\ transformerCalls = 0
  /\ returnedRef = This
  /\ tagCall = NoTagCall
  /\ consoleCalls = <<>>

\* ------------------------------------------------- configuration calls
instanceVars ==
  <<fnName, args, state, cachedResult, ignoreAtExecution, breadcrumbsAdded,
    cachedBreadcrumbData>>
runVars == <<ops, fnCalls, cbStarted, cbDone>>
countVars == <<addBreadcrumbsCalls, transformerCalls>>

\* The step calls no method of the reporter.
NoReporterCalls == Calls(<<>>) /\ UNCHANGED countVars

\* The step is not a configuration call.
NoConfigCall == tagCall' = NoTagCall /\ UNCHANGED returnedRef

\* Mutant of SetConfig: the call hands back an instance that has not run.
SetConfigResets(field, v) ==
  /\ config' = [config EXCEPT ![field] = v]
  /\ state' = "pending"
  /\ cachedResult' = NoResult
  /\ returnedRef' = SetConfigReturn(This)
  /\ finished' = NoFinish
  /\ NoReporterCalls
  /\ consoleCalls' = <<>>
  /\ UNCHANGED <<fnName, args, ignoreAtExecution, breadcrumbsAdded,
                 cachedBreadcrumbData, runVars, ignoreErrorTypes, defaultReporter>>

\* setConfig(newConfig): this.config = { ...this.config, ...newConfig }
SetConfig(field, v) ==
  /\ config' = [config EXCEPT ![field] = v]
  /\ returnedRef' = SetConfigReturn(This)
  /\ finished' = NoFinish
  /\ NoReporterCalls
  /\ consoleCalls' = <<>>
  /\ UNCHANGED <<instanceVars, runVars, ignoreErrorTypes, defaultReporter>>

\* report(message)
Report(m) == SetConfig("message", m) /\ tagCall' = NoTagCall

\* default(defaultValue)
Default(d) == SetConfig("defaultValue", d) /\ tagCall' = NoTagCall

\* finally(callback)
Finally == SetConfig("finallyCallback", "cleanup") /\ tagCall' = NoTagCall

\* breadcrumbs(keys), breadcrumbs(...transformers)
Breadcrumbs(c) == SetConfig("breadcrumbConfig", c) /\ tagCall' = NoTagCall

\* debug(enabled)
Debug(enabled) == SetConfig("debug", enabled) /\ tagCall' = NoTagCall

\* Mutant of TagsMerge: the record replaces the tags.
TagsReplace(tags, record) == record

\* tag(), tags(): `{ ...this.config.tags, [name]: value }`,
\* `{ ...this.config.tags, ...tagRecord }`
TagsMerge(tags, record) == Spread(tags, record)

\* tag(name, value)
Tag(name, value) ==
  /\ SetConfig("tags", TagsMerge(config.tags, {<<name, value>>}))
  /\ tagCall' = TagCallOf({<<name, value>>})

\* tags(tagRecord)
Tags(tagRecord) ==
  /\ SetConfig("tags", TagsMerge(config.tags, tagRecord))
  /\ tagCall' = TagCallOf(tagRecord)

\* static throwThroughErrorTypes(list)
ThrowThroughErrorTypes(l) ==
  /\ ignoreErrorTypes' = l
  /\ UNCHANGED defaultReporter
  /\ finished' = NoFinish
  /\ NoReporterCalls
  /\ consoleCalls' = <<>>
  /\ NoConfigCall
  /\ UNCHANGED <<instanceVars, runVars, config>>

\* static setDefaultReporter(reporter)
SetDefaultReporter(r) ==
  /\ defaultReporter' = r
  /\ UNCHANGED ignoreErrorTypes
  /\ finished' = NoFinish
  /\ NoReporterCalls
  /\ consoleCalls' = <<>>
  /\ NoConfigCall
  /\ UNCHANGED <<instanceVars, runVars, config>>

\* ------------------------------------------------- the terminal operations
\* What a terminal operation does from `await this.execute()` to its next
\* await or its end: whether it goes on to `await this.reportError(...)`
\* (next = "reported") or ends, what it hands to the caller, and the calls
\* it makes to Reporter.report, Reporter.addBreadcrumbs (emit) and
\* Reporter.createWrappedError.
Step(next, ret, reports, emit, wraps) ==
  [next |-> next, ret |-> ret, reports |-> reports, emit |-> emit, wraps |-> wraps]

\* unwrap(): the value that is thrown for a failed outcome.
UnwrapThrow(result, cfg, ignore) ==
  IF ShouldWrap(cfg.message, ignore, result.error.name)
    THEN CreateWrappedError(result.error, cfg.message)
    ELSE result.error

UnwrapWraps(result, cfg, ignore) ==
  IF ShouldWrap(cfg.message, ignore, result.error.name) THEN 1 ELSE 0

\* result()
ResultStep(result) ==
  Step("done", Ret("return", Undefined, NoError, result), 0, FALSE, 0)

\* Mutant of ErrorStep: a failure is reported before it is returned.
ErrorStepReports(result) ==
  Step("done", Ret("return", Undefined, ErrorOf(result), NoResult),
       IF result.success THEN 0 ELSE 1, FALSE, 0)

\* error()
ErrorStep(result) ==
  Step("done", Ret("return", Undefined, ErrorOf(result), NoResult), 0, FALSE, 0)

\* Mutant of ValueStep: without a message nothing is emitted.
ValueStepReportOnly(result, cfg, added) ==
  IF result.success
    THEN Step("done", Returned(result.value), 0, FALSE, 0)
    ELSE IF ShouldReport(cfg.message)
      THEN Step("reported", NoRet, 1, EmitsBreadcrumbs(cfg, added), 0)
      ELSE Step("done", Returned(DefaultOrUndefined(cfg.defaultValue)), 0, FALSE, 0)

\* value(), up to `await this.reportError(...)` or the return
ValueStep(result, cfg, added) ==
  IF result.success
    THEN Step("done", Returned(result.value), 0, FALSE, 0)
    ELSE IF ShouldReport(cfg.message)
      THEN Step("reported", NoRet, 1, EmitsBreadcrumbs(cfg, added), 0)
      ELSE Step("done", Returned(DefaultOrUndefined(cfg.defaultValue)), 0,
                EmitsBreadcrumbs(cfg, added), 0)

\* Mutant of UnwrapStep: with a message configured the outcome is reported
\* before it is looked at.
UnwrapStepReportsSuccess(result, cfg, added, ignore) ==
  IF ShouldCapture(cfg.message)
    THEN Step("reported", NoRet, 1, EmitsBreadcrumbs(cfg, added), 0)
    ELSE IF result.success
      THEN Step("done", Returned(result.value), 0, FALSE, 0)
      ELSE Step("done", Thrown(UnwrapThrow(result, cfg, ignore)), 0, FALSE,
                UnwrapWraps(result, cfg, ignore))

\* unwrap(), up to `await this.reportError(...)`, the return or the throw
UnwrapStep(result, cfg, added, ignore) ==
  IF result.success
    THEN Step("done", Returned(result.value), 0, FALSE, 0)
    ELSE IF ShouldCapture(cfg.message)
      THEN Step("reported", NoRet, 1, EmitsBreadcrumbs(cfg, added), 0)
      ELSE Step("done", Thrown(UnwrapThrow(result, cfg, ignore)), 0, FALSE,
                UnwrapWraps(result, cfg, ignore))

\* Mutant of ThenStep: awaiting the instance behaves as unwrap().
ThenStepAsUnwrap(result, cfg, added) == UnwrapStep(result, cfg, added, <<>>)

\* then(): `this.value().then(onfulfilled, onrejected)`
ThenStep(result, cfg, added) == ValueStep(result, cfg, added)

\* Mutant of MethodStep: a failure is reported once per instance, under the
\* guard of the breadcrumbs.
MethodStepReportsOnce(k, result) ==
  LET s == CASE k = "result" -> ResultStep(result)
             [] k = "error" -> ErrorStep(result)
             [] k = "value" -> ValueStep(result, config, breadcrumbsAdded)
             [] k = "then" -> ThenStep(result, config, breadcrumbsAdded)
             [] k = "unwrap" ->
                  UnwrapStep(result, config, breadcrumbsAdded, ignoreErrorTypes) IN
  IF breadcrumbsAdded THEN [s EXCEPT !.reports = 0] ELSE s

\* execute() has returned `result` to terminal operation k.
MethodStep(k, result) ==
  CASE k = "result" -> ResultStep(result)
    [] k = "error" -> ErrorStep(result)
    [] k = "value" -> ValueStep(result, config, breadcrumbsAdded)
    [] k = "then" -> ThenStep(result, config, breadcrumbsAdded)
    [] k = "unwrap" -> UnwrapStep(result, config, breadcrumbsAdded, ignoreErrorTypes)

Finish(o, result, ret, reports, crumbs, wraps) ==
  [kind |-> o.kind, call |-> o.call, cbThrew |-> o.cbThrew, result |-> result,
   message |-> o.message, ret |-> ret, reports |-> reports,
   crumbs |-> IF crumbs THEN 1 ELSE 0, wraps |-> wraps]

\* execute() of operation i (whose record is o) returns `result` and the
\* operation runs on to its next await or its end, `logged` being the calls
\* of console.error that execute() made in this step.  The hop of
\* `await this.execute()` is taken in the same step: execute()'s value is
\* fixed, and what the operation reads afterwards (config, the breadcrumb
\* guard, the allow-list) can change before this step just as well.
Resume(i, o0, result, logged) ==
  LET s == MethodStep(o0.kind, result)
      o == [o0 EXCEPT !.message = config.message]
      x == BreadcrumbExtraction(s.emit, cachedBreadcrumbData, config, args)
      data == IF s.emit THEN [defined |-> TRUE, entries |-> x.entries]
                        ELSE cachedBreadcrumbData IN
  /\ NoConfigCall
  /\ transformerCalls' = CountUp(transformerCalls, x.calls)
  /\ consoleCalls' = logged \o x.logs
  /\ IF x.threw
       \* a throw that escapes the extraction ends the operation
       THEN /\ ops' = [ops EXCEPT ![i] = IdleOp]
            /\ finished' = Finish(o, result, Thrown(TransformerError), 0, FALSE, 0)
            /\ Calls(<<>>)
            /\ UNCHANGED <<breadcrumbsAdded, cachedBreadcrumbData, addBreadcrumbsCalls>>
       ELSE /\ breadcrumbsAdded' = (breadcrumbsAdded \/ s.emit)
            /\ cachedBreadcrumbData' = data
            /\ addBreadcrumbsCalls' = CountUp(addBreadcrumbsCalls, IF s.emit THEN 1 ELSE 0)
            /\ Calls(CallsOf(s.emit, s.reports, s.wraps, result.error, config, data,
                             fnName))
            /\ IF s.next = "reported"
                 THEN /\ ops' = [ops EXCEPT ![i] =
                           [o EXCEPT !.pc = "reported", !.cb = FALSE, !.result = result,
                                     !.crumbs = s.emit]]
                      /\ finished' = NoFinish
                 ELSE /\ ops' = [ops EXCEPT ![i] = IdleOp]
                      /\ finished' = Finish(o, result, s.ret, s.reports, s.emit, s.wraps)

\* ------------------------------------------------------------- execute()
Begin(i) ==
  /\ ops[i].pc = "idle"
  /\ \A j \in Ops : j < i => ops[j].pc # "idle"

\* The catch and finally blocks of execute(), entered by operation i (record
\* o) with the outcome `cached` just stored: a failure is logged if debug
\* is on (the catch block), state = 'executed', then the cleanup
\* callback is invoked.  If the callback throws synchronously the throw is
\* caught on the spot and execute() returns without suspending; otherwise
\* execute() suspends on `await Promise.resolve(...)`.
FinallyBlock(i, o, cached, cbThrowsNow) ==
  LET hasCb == HasCleanup(config)
      logged == CatchLog(cached, config) \o CleanupLog(cbThrowsNow, config) IN
  /\ cbThrowsNow => hasCb
  /\ state' = "executed"
  /\ cachedResult' = cached
  /\ ignoreAtExecution' = ignoreErrorTypes
  /\ cbStarted' = IF hasCb THEN cbStarted + 1 ELSE cbStarted
  /\ cbDone' = IF cbThrowsNow THEN cbDone + 1 ELSE cbDone
  /\ IF cbThrowsNow
       THEN Resume(i, [o EXCEPT !.cbThrew = TRUE], ExecuteReturn(cached, TRUE), logged)
       ELSE /\ ops' = [ops EXCEPT ![i] = [o EXCEPT !.pc = "awaitCb", !.cb = hasCb]]
            /\ finished' = NoFinish
            /\ NoReporterCalls
            /\ consoleCalls' = logged
            /\ NoConfigCall
            /\ UNCHANGED <<breadcrumbsAdded, cachedBreadcrumbData>>

\* A terminal operation is called and execute() finds the cached outcome.
StartCached(i, k) ==
  /\ Begin(i)
  /\ ShortCircuit(state, cachedResult)
  /\ Resume(i, [IdleOp EXCEPT !.kind = k], cachedResult, <<>>)
  /\ UNCHANGED <<fnName, args, state, cachedResult, ignoreAtExecution, config,
                 ignoreErrorTypes, defaultReporter, fnCalls,
                 cbStarted, cbDone>>

\* Mutant of StartCall: the instance is marked executed as soon as the
\* callable is invoked.
StartCallMarksExecuted(i, k) ==
  /\ Begin(i)
  /\ ~ShortCircuit(state, cachedResult)
  /\ fnCalls' = fnCalls + 1
  /\ state' = "executed"
  /\ ops' = [ops EXCEPT ![i] =
       [IdleOp EXCEPT !.kind = k, !.pc = "awaitFn", !.call = fnCalls + 1]]
  /\ finished' = NoFinish
  /\ NoReporterCalls
  /\ consoleCalls' = <<>>
  /\ NoConfigCall
  /\ UNCHANGED <<fnName, args, cachedResult, ignoreAtExecution, breadcrumbsAdded,
                 cachedBreadcrumbData, config, ignoreErrorTypes, defaultReporter,
                 cbStarted, cbDone>>

\* A terminal operation is called, execute() invokes the callable, which
\* returns a value or a promise: execute() suspends on `await this.fn(...)`.
StartCall(i, k) ==
  /\ Begin(i)
  /\ ~ShortCircuit(state, cachedResult)
  /\ fnCalls' = fnCalls + 1
  /\ ops' = [ops EXCEPT ![i] =
       [IdleOp EXCEPT !.kind = k, !.pc = "awaitFn", !.call = fnCalls + 1]]
  /\ finished' = NoFinish
  /\ NoReporterCalls
  /\ consoleCalls' = <<>>
  /\ NoConfigCall
  /\ UNCHANGED <<instanceVars, config, ignoreErrorTypes, defaultReporter, cbStarted, cbDone>>

\* A terminal operation is called and the callable throws synchronously:
\* the catch and finally blocks run in the same synchronous segment.
StartCallThrows(i, k, e, cbThrowsNow) ==
  /\ Begin(i)
  /\ ~ShortCircuit(state, cachedResult)
  /\ fnCalls' = fnCalls + 1
  /\ FinallyBlock(i, [IdleOp EXCEPT !.kind = k, !.call = fnCalls + 1],
                  FailureResult(e, fnCalls + 1), cbThrowsNow)
  /\ UNCHANGED <<fnName, args, config, ignoreErrorTypes, defaultReporter>>

\* The awaited callable resolves with v.
FnResolves(i, v, cbThrowsNow) ==
  /\ ops[i].pc = "awaitFn"
  /\ FinallyBlock(i, ops[i], SuccessResult(v, ops[i].call), cbThrowsNow)
  /\ UNCHANGED <<fnName, args, config, ignoreErrorTypes, defaultReporter, fnCalls>>

\* The awaited callable rejects with e.
FnRejects(i, e, cbThrowsNow) ==
  /\ ops[i].pc = "awaitFn"
  /\ FinallyBlock(i, ops[i], FailureResult(e, ops[i].call), cbThrowsNow)
  /\ UNCHANGED <<fnName, args, config, ignoreErrorTypes, defaultReporter, fnCalls>>

\* `await Promise.resolve(this.config.finallyCallback?.())` settles (by
\* resolving, or by a rejection that the catch drops) and execute() returns
\* this.cachedResult as it is now.
CleanupSettles(i, threw) ==
  /\ ops[i].pc = "awaitCb"
  /\ threw => ops[i].cb
  /\ cbDone' = IF ops[i].cb THEN cbDone + 1 ELSE cbDone
  /\ Resume(i, [ops[i] EXCEPT !.cbThrew = threw], ExecuteReturn(cachedResult, threw),
            CleanupLog(threw, config))
  /\ UNCHANGED <<fnName, args, state, cachedResult, ignoreAtExecution, config,
                 ignoreErrorTypes, defaultReporter, fnCalls,
                 cbStarted>>

\* value() and then() after `await this.reportError(...)`.
ValueReturnsDefault(i) ==
  /\ ops[i].pc = "reported" /\ ops[i].kind \in {"value", "then"}
  /\ finished' = Finish(ops[i], ops[i].result,
                        Returned(DefaultOrUndefined(config.defaultValue)),
                        1, ops[i].crumbs, 0)
  /\ ops' = [ops EXCEPT ![i] = IdleOp]
  /\ NoReporterCalls
  /\ consoleCalls' = <<>>
  /\ NoConfigCall
  /\ UNCHANGED <<instanceVars, config, ignoreErrorTypes, defaultReporter, fnCalls, cbStarted,
                 cbDone>>

\* unwrap() after `await this.reportError(...)`: throw wrapped or original.
UnwrapThrows(i) ==
  /\ ops[i].pc = "reported" /\ ops[i].kind = "unwrap"
  /\ LET list == AllowListRead(ignoreErrorTypes, ignoreAtExecution) IN
       /\ finished' = Finish(ops[i], ops[i].result,
                             Thrown(UnwrapThrow(ops[i].result, config, list)),
                             1, ops[i].crumbs,
                             UnwrapWraps(ops[i].result, config, list))
       /\ Calls(CallsOf(FALSE, 0, UnwrapWraps(ops[i].result, config, list),
                        ops[i].result.error, config, cachedBreadcrumbData, fnName))
  /\ ops' = [ops EXCEPT ![i] = IdleOp]
  /\ UNCHANGED countVars
  /\ consoleCalls' = <<>>
  /\ NoConfigCall
  /\ UNCHANGED <<instanceVars, config, ignoreErrorTypes, defaultReporter, fnCalls, cbStarted,
                 cbDone>>

\* ------------------------------------------------------------------ Next
\* One caller: every terminal operation is awaited to completion before the
\* next one is called.  Configuration calls come at any time.
Caller == {1}

Next ==
  \/ \E m \in Messages : Report(m)
  \/ \E d \in DefaultValues : Default(d)
  \/ Finally
  \/ \E c \in KeyLists : Breadcrumbs(c)
  \/ \E l \in IgnoreLists : ThrowThroughErrorTypes(l)
  \/ \E i \in Caller, k \in Kinds : StartCached(i, k)
  \/ \E i \in Caller, k \in Kinds : StartCall(i, k)
  \/ \E i \in Caller, k \in Kinds, e \in CallErrors, t \in BOOLEAN :
       StartCallThrows(i, k, e, t)
  \/ \E i \in Caller, v \in CallValues, t \in BOOLEAN : FnResolves(i, v, t)
  \/ \E i \in Caller, e \in CallErrors, t \in BOOLEAN : FnRejects(i, e, t)
  \/ \E i \in Caller, t \in BOOLEAN : CleanupSettles(i, t)
  \/ \E i \in Caller : ValueReturnsDefault(i)
  \/ \E i \in Caller : UnwrapThrows(i)

Spec == Init /\ [][Next]_vars

\* One caller again, and the whole fluent interface: every configuration
\* method of the instance, at any time.
NextFluent ==
  \/ \E m \in FluentMessages : Report(m)
  \/ \E d \in FluentDefaults : Default(d)
  \/ Finally
  \/ \E c \in BreadcrumbConfigs : Breadcrumbs(c)
  \/ \E n \in TagNames, v \in TagValues : Tag(n, v)
  \/ \E r \in TagRecords : Tags(r)
  \/ \E b \in DebugFlags : Debug(b)
  \/ \E i \in Caller, k \in Kinds : StartCached(i, k)
  \/ \E i \in Caller, k \in Kinds : StartCall(i, k)
  \/ \E i \in Caller, k \in Kinds, e \in FluentErrors, t \in BOOLEAN :
       StartCallThrows(i, k, e, t)
  \/ \E i \in Caller, v \in CallValues, t \in BOOLEAN : FnResolves(i, v, t)
  \/ \E i \in Caller, e \in FluentErrors, t \in BOOLEAN : FnRejects(i, e, t)
  \/ \E i \in Caller, t \in BOOLEAN : CleanupSettles(i, t)
  \/ \E i \in Caller : ValueReturnsDefault(i)
  \/ \E i \in Caller : UnwrapThrows(i)

SpecFluent == InitAnyCallable /\ [][NextFluent]_vars

\* Up to MaxInFlight callers: a terminal operation can be called while
\* others are suspended in execute().  The instance is configured with a
\* cleanup callback or not, and with nothing else.
NextConcurrent ==
  \/ Finally
  \/ \E i \in Ops, k \in Kinds : StartCached(i, k)
  \/ \E i \in Ops, k \in Kinds : StartCall(i, k)
  \/ \E i \in Ops, k \in Kinds, e \in CallErrors, t \in BOOLEAN :
       StartCallThrows(i, k, e, t)
  \/ \E i \in Ops, v \in CallValues, t \in BOOLEAN : FnResolves(i, v, t)
  \/ \E i \in Ops, e \in CallErrors, t \in BOOLEAN : FnRejects(i, e, t)
  \/ \E i \in Ops, t \in BOOLEAN : CleanupSettles(i, t)

SpecConcurrent == Init /\ [][NextConcurrent]_vars

\* One caller of value() and error() on an instance whose callable fails:
\* the breadcrumb context is extracted from the bound arguments by the
\* first value().
ExtractKinds == {"value", "error"}

NextExtract ==
  \/ \E i \in Caller, k \in ExtractKinds : StartCached(i, k)
  \/ \E i \in Caller, k \in ExtractKinds : StartCall(i, k)
  \/ \E i \in Caller, k \in ExtractKinds, e \in FluentErrors :
       StartCallThrows(i, k, e, FALSE)
  \/ \E i \in Caller, e \in FluentErrors : FnRejects(i, e, FALSE)
  \/ \E i \in Caller : CleanupSettles(i, FALSE)

SpecExtract == InitExtract /\ [][NextExtract]_vars

\* One caller of unwrap() and value() on an instance whose callable fails,
\* with a message and breadcrumb keys configured at any time, and the
\* default reporter replaced at any time.
NextReporters ==
  \/ \E r \in Reporters : SetDefaultReporter(r)
  \/ \E m \in Messages : Report(m)
  \/ \E c \in KeyLists : Breadcrumbs(c)
  \/ \E i \in Caller, k \in {"unwrap", "value"} : StartCached(i, k)
  \/ \E i \in Caller, k \in {"unwrap", "value"} : StartCall(i, k)
  \/ \E i \in Caller, e \in FluentErrors : FnRejects(i, e, FALSE)
  \/ \E i \in Caller : CleanupSettles(i, FALSE)
  \/ \E i \in Caller : ValueReturnsDefault(i)
  \/ \E i \in Caller : UnwrapThrows(i)

SpecReporters == Init /\ [][NextReporters]_vars

TypeOK ==
  /\ state \in {"pending", "executed"}
  /\ fnCalls \in 0..MaxInFlight
  /\ cbStarted \in 0..fnCalls
  /\ cbDone \in 0..cbStarted

\* =================================================================== claims
\* A terminal operation has just returned or thrown.
Done == finished.kind # "none"

\* A terminal operation has just returned or thrown a failed outcome.
DoneFailed(k) == finished.kind = k /\ finished.result.id # 0 /\ ~finished.result.success

InList(name, list) == \E n \in 1..Len(list) : list[n] = name

\* C1: with every terminal operation awaited before the next one is called,
\* the callable is invoked exactly once, by the first terminal operation:
\* never more than once, and once as soon as a terminal operation is in
\* progress or has completed.
C1_ExactlyOnce ==
  /\ fnCalls <= 1
  /\ (InFlight(ops[1]) \/ Done \/ state = "executed") => fnCalls = 1
  /\ Done => finished.call \in {0, 1}

\* A later terminal operation was served from the cache and the callable
\* has still run once.
C1_Witness == Done /\ finished.call = 0 /\ fnCalls = 1

\* C2: under any interleaving of terminal operations the callable is never
\* invoked a second time.
C2_AtMostOnceConcurrent == fnCalls <= 1

\* C3: with sequential terminal calls every operation works on the one
\* outcome object built by the first execution: result() returns that
\* object, error() its error (undefined on success), value() and unwrap()
\* its value on success, and unwrap() throws its error (or a wrapper of it)
\* on failure.
C3_SameOutcome ==
  Done =>
    /\ cachedResult.id = 1
    /\ finished.result = cachedResult
    /\ finished.kind = "result" => finished.ret = Ret("return", Undefined, NoError, cachedResult)
    /\ finished.kind = "error" =>
         finished.ret = Ret("return", Undefined,
                            IF cachedResult.success THEN NoError ELSE cachedResult.error,
                            NoResult)
    /\ (finished.kind \in {"value", "then", "unwrap"} /\ cachedResult.success) =>
         finished.ret = Returned(cachedResult.value)
    /\ (finished.kind = "unwrap" /\ ~cachedResult.success) =>
         /\ finished.ret.how = "throw"
         /\ \/ finished.ret.error = cachedResult.error
            \/ finished.ret.error.cause = cachedResult.error.id

\* error() was served from the cache of a failed execution.
C3_Witness == DoneFailed("error") /\ finished.call = 0

\* C4: with sequential terminal calls, a cleanup callback registered when
\* the callable settles is invoked in that very step and at no other time
\* (so at most once, and only after the outcome is stored), and it has
\* completed whenever a terminal operation returns or throws.
C4_CleanupOnce ==
  /\ [](/\ cbStarted <= 1
        /\ cbStarted = 1 => (state = "executed" /\ cachedResult.id # 0)
        /\ Done => cbDone = cbStarted)
  /\ [][/\ (state = "pending" /\ state' = "executed") =>
             cbStarted' = IF Truthy(config.finallyCallback) THEN 1 ELSE 0
        /\ state = "executed" => cbStarted' = cbStarted]_vars

\* A later terminal operation has completed and the callback has run once.
C4_Witness == Done /\ finished.call = 0 /\ cbStarted = 1 /\ cbDone = 1

\* C5: no terminal operation returns or throws while an invocation of the
\* cleanup callback is still in progress.
C5_CleanupBeforeReturn == Done => cbDone = cbStarted

\* C6: when the cleanup callback throws, the operation still works on the
\* outcome of the callable, the cached outcome is untouched, nothing the
\* operation returns or throws is or wraps the cleanup error, and only
\* unwrap() of a failed call throws.
C6_CleanupFailureContained ==
  /\ cachedResult.error # CleanupError
  /\ (Done /\ finished.cbThrew) =>
       /\ finished.result = cachedResult
       /\ finished.ret.error # CleanupError
       /\ finished.ret.error.cause # CleanupError.id
       /\ finished.ret.how = "throw" => (finished.kind = "unwrap" /\ ~cachedResult.success)
       /\ (cachedResult.success /\ finished.kind \in {"unwrap", "value", "then"}) =>
            finished.ret = Returned(cachedResult.value)
       /\ finished.kind = "result" => finished.ret.result = cachedResult

\* unwrap() returned the value of a successful call whose cleanup threw.
C6_Witness ==
  Done /\ finished.cbThrew /\ finished.kind = "unwrap" /\ finished.result.success

C8_ThrowThrough ==
  (/\ DoneFailed("unwrap")
   /\ Truthy(config.message)
   /\ InList(finished.result.error.name, ignoreErrorTypes)) =>
     /\ finished.ret = Thrown(finished.result.error)
     /\ finished.reports = 1
     /\ finished.wraps = 0

C8_Witness ==
  /\ DoneFailed("unwrap")
  /\ Truthy(config.message)
  /\ finished.result.error = ValidationFailure
  /\ InList("GraphQLError", ignoreErrorTypes)
  /\ finished.reports = 1

\* C9: unwrap() of a failed call that found no message configured throws
\* the original error and has called neither Reporter.report nor
\* Reporter.addBreadcrumbs, whatever breadcrumbs and default are configured.
C9_NoMessageNoReport ==
  (DoneFailed("unwrap") /\ ~Truthy(finished.message)) =>
     /\ finished.ret = Thrown(finished.result.error)
     /\ finished.reports = 0
     /\ finished.crumbs = 0
     /\ finished.wraps = 0

C9_Witness ==
  /\ DoneFailed("unwrap")
  /\ finished.message = Undefined
  /\ config.breadcrumbConfig.defined
  /\ config.defaultValue = "fallback"

\* C10: for a failed call with default(X) configured, value() returns
\* exactly X for every X, error() returns the original error and result()
\* returns the failed outcome.
C10_DefaultReturned ==
  /\ (DoneFailed("value") /\ config.defaultValue # Undefined) =>
       finished.ret = Returned(config.defaultValue)
  /\ DoneFailed("error") => finished.ret.error = finished.result.error
  /\ DoneFailed("result") => finished.ret.result = finished.result

\* The calls of the latest step to the given method of the reporter.
CallsTo(method) ==
  {reporterCalls[n] : n \in {m \in 1..Len(reporterCalls) : reporterCalls[m].method = method}}

C12_ValueReporting ==
  /\ (DoneFailed("value") /\ Truthy(finished.message)) => finished.reports = 1
  /\ (ops[1].kind = "value" /\ ops[1].pc = "reported" /\ reporterCalls # <<>>) =>
       /\ Cardinality(CallsTo("report")) = 1
       /\ config.breadcrumbConfig.defined => addBreadcrumbsCalls = 1
  /\ (DoneFailed("value") /\ ~Truthy(finished.message)) =>
       /\ finished.reports = 0
       /\ CallsTo("report") = {}
       /\ IF config.breadcrumbConfig.defined
            THEN /\ addBreadcrumbsCalls = 1
                 /\ Len(reporterCalls) = finished.crumbs
                 /\ \A c \in CallsTo("addBreadcrumbs") :
                      c.data = [defined |-> TRUE, entries |-> {<<"userId", StringValue("u1")>>}]
            ELSE /\ reporterCalls = <<>>
                 /\ finished.crumbs = 0

\* value() of a failed call with breadcrumbs and no message has just called
\* Reporter.addBreadcrumbs.
C12_Witness ==
  /\ DoneFailed("value")
  /\ finished.message = Undefined
  /\ finished.crumbs = 1
  /\ Len(reporterCalls) = 1

\* C13: error() and result() return and never throw, and call no method of
\* the reporter, whatever the outcome and the configuration; error() returns
\* undefined on success and the raw error on failure, result() the outcome
\* object.
C13_ErrorResultSilent ==
  finished.kind \in {"error", "result"} =>
    /\ finished.ret.how = "return"
    /\ finished.reports = 0 /\ finished.crumbs = 0 /\ finished.wraps = 0
    /\ reporterCalls = <<>>
    /\ finished.kind = "error" =>
         finished.ret.error =
           IF finished.result.success THEN NoError ELSE finished.result.error
    /\ finished.kind = "result" =>
         /\ finished.ret.result = finished.result
         /\ finished.result.success => finished.result.error = NoError
         /\ ~finished.result.success => finished.result.error \in CallErrors

\* error() of a failed call with a message and breadcrumbs configured, and
\* no breadcrumb emitted so far.
C13_Witness ==
  /\ DoneFailed("error")
  /\ Truthy(config.message)
  /\ config.breadcrumbConfig.defined
  /\ addBreadcrumbsCalls = 0

\* C14: when the callable succeeds no terminal operation calls
\* Reporter.report, Reporter.addBreadcrumbs or Reporter.createWrappedError,
\* whatever message, breadcrumbs and tags are configured, and unwrap(),
\* value() and the implicit await return the callable's value.
C14_SuccessIsSilent ==
  (cachedResult.id # 0 /\ cachedResult.success) =>
    /\ reporterCalls = <<>>
    /\ addBreadcrumbsCalls = 0
    /\ transformerCalls = 0
    /\ ops[1].pc # "reported"
    /\ Done =>
         /\ finished.reports = 0 /\ finished.crumbs = 0 /\ finished.wraps = 0
         /\ finished.kind \in {"unwrap", "value", "then"} =>
              finished.ret = Returned(cachedResult.value)

\* unwrap() returned the value of a successful call with a message,
\* breadcrumbs and tags configured.
C14_Witness ==
  /\ Done /\ finished.kind = "unwrap" /\ finished.result.success
  /\ finished.ret = Returned("v1")
  /\ Truthy(config.message)
  /\ config.breadcrumbConfig.defined
  /\ config.tags # {}

\* C15: awaiting the instance (then) behaves as value() does: it always
\* returns, with the callable's value on success and with what value()
\* returns on failure (the default, undefined for none and for null); it
\* calls Reporter.report exactly when the call failed and a message is
\* configured, emits breadcrumbs without a report when only breadcrumbs are
\* configured, and never calls Reporter.createWrappedError.
C15_ThenAsValue ==
  /\ finished.kind = "then" =>
       /\ finished.ret.how = "return"
       /\ finished.ret.error = NoError
       /\ finished.ret.value =
            IF finished.result.success THEN finished.result.value
            ELSE IF config.defaultValue \in {Undefined, Null} THEN Undefined
            ELSE config.defaultValue
       /\ finished.reports =
            IF ~finished.result.success /\ Truthy(finished.message) THEN 1 ELSE 0
       /\ finished.wraps = 0
       /\ finished.crumbs = 1 => ~finished.result.success
       /\ (~finished.result.success /\ ~Truthy(finished.message)) =>
            /\ CallsTo("report") = {}
            /\ config.breadcrumbConfig.defined => addBreadcrumbsCalls = 1
            /\ ~config.breadcrumbConfig.defined => reporterCalls = <<>>
  /\ (ops[1].kind = "then" /\ ops[1].pc = "reported" /\ reporterCalls # <<>>) =>
       /\ Cardinality(CallsTo("report")) = 1
       /\ CallsTo("createWrappedError") = {}
       /\ config.breadcrumbConfig.defined => addBreadcrumbsCalls = 1

\* An awaited instance resolved to the default after reporting a failure.
C15_Witness ==
  /\ DoneFailed("then")
  /\ finished.reports = 1
  /\ finished.ret = Returned("fallback")

\* C16: the transformers passed to breadcrumbs() are invoked at most once
\* per instance, whatever terminal operations are called and however often.
C16_TransformerOnce == transformerCalls <= 1

\* A later failing value() was served after the transformer had run once.
C16_Witness ==
  /\ DoneFailed("value")
  /\ finished.call = 0
  /\ finished.crumbs = 0
  /\ config.breadcrumbConfig = TransformerList(<<"transformSpy">>)
  /\ transformerCalls = 1

\* C17: Reporter.addBreadcrumbs is called at most once per instance, and
\* with the callable's declared name, or 'anonymous' if it has none.
C17_AddBreadcrumbsOnce ==
  /\ addBreadcrumbsCalls <= 1
  /\ Cardinality(CallsTo("addBreadcrumbs")) <= 1
  /\ \A c \in CallsTo("addBreadcrumbs") :
       c.functionName = IF fnName = "" THEN "anonymous" ELSE fnName

\* The breadcrumbs of an anonymous callable have just been emitted.
C17_Witness ==
  /\ fnName = ""
  /\ \E c \in CallsTo("addBreadcrumbs") : c.functionName = "anonymous"

\* C18 as stated: Reporter.report receives the error, the configured
\* message, the computed breadcrumb context, the callable's name and the
\* instance's tags plus the library tag.
C18_ReportPayload ==
  \A c \in CallsTo("report") :
    /\ c.error = cachedResult.error
    /\ c.message = config.message
    /\ c.data = cachedBreadcrumbData
    /\ c.functionName = fnName
    /\ c.tags = Spread(config.tags, {LibraryTag})

\* C18 as amended: Reporter.report receives the error, the configured
\* message, the computed breadcrumb context (undefined if no breadcrumbs
\* are configured), the callable's name and exactly the instance's merged
\* tags: the core adds no tag.  The library tag joins them in the
\* Sentry-backed reporter, in what it hands on to Sentry.captureException.
C18_ReportPayloadAmended ==
  \A c \in CallsTo("report") :
    /\ ~cachedResult.success /\ c.error = cachedResult.error
    /\ Truthy(c.message) /\ c.message = config.message
    /\ c.data = cachedBreadcrumbData
    /\ c.data.defined = (config.breadcrumbConfig.defined \/ breadcrumbsAdded)
    /\ c.functionName = fnName
    /\ c.tags = config.tags
    /\ SentryCaptureTags(c.tags) = config.tags \cup {LibraryTag}

\* A failure has just been reported with two tags and a breadcrumb context.
C18_Witness ==
  \E c \in CallsTo("report") :
    /\ c.tags = {<<"k", "v">>, <<"j", "w">>}
    /\ c.message = "failed"
    /\ c.error = Boom
    /\ c.data = [defined |-> TRUE, entries |-> {<<"userId", StringValue("u1")>>}]

\* The keys of a tag map, and the value it has for a key (undefined if none).
TagKeys(map) == {p[1] : p \in map}
TagValue(map, key) ==
  IF key \in TagKeys(map) THEN (CHOOSE p \in map : p[1] = key)[2] ELSE Undefined

\* C19: the tag map is the left-to-right merge of the tag() and tags()
\* calls made so far: it starts empty, every such call gives the keys of
\* its record the record's values and leaves every other key as it was,
\* and nothing else changes the map; a key has one value.
C19_TagsMerge ==
  /\ [](\A p \in config.tags, q \in config.tags : p[1] = q[1] => p = q)
  /\ [][IF tagCall'.made
          THEN /\ TagKeys(config'.tags) = TagKeys(config.tags) \cup TagKeys(tagCall'.record)
               /\ \A key \in TagKeys(config'.tags) :
                    TagValue(config'.tags, key) =
                      IF key \in TagKeys(tagCall'.record)
                        THEN TagValue(tagCall'.record, key)
                        ELSE TagValue(config.tags, key)
          ELSE config'.tags = config.tags]_vars

\* tags({k: 'w', j: 'w'}) has just overwritten k: 'v', and earlier
\* tags({j: 'w'}) was merged in without removing k.
C19_Witness ==
  /\ tagCall = TagCallOf({<<"k", "w">>, <<"j", "w">>})
  /\ config.tags = {<<"k", "w">>, <<"j", "w">>}

C21_ConfigAfterExecution ==
  /\ [][state = "executed" =>
          /\ state' = state
          /\ cachedResult' = cachedResult
          /\ fnCalls' = fnCalls
          /\ cbStarted' = cbStarted]_vars
  /\ [](finished.kind \in {"error", "result"} =>
          /\ cachedResult.id = 1
          /\ finished.result = cachedResult
          /\ finished.kind = "error" => finished.ret.error = ErrorOf(cachedResult)
          /\ finished.kind = "result" => finished.ret.result = cachedResult)

\* error() was served from the cache after finally(), report(), tag(),
\* breadcrumbs(), default() and debug() were called on the executed
\* instance: the cleanup callback registered late has not run.
C21_Witness ==
  /\ DoneFailed("error")
  /\ finished.call = 0
  /\ fnCalls = 1
  /\ cbStarted = 0
  /\ Truthy(config.finallyCallback)
  /\ Truthy(config.message)
  /\ config.breadcrumbConfig.defined
  /\ config.tags # {}
  /\ config.defaultValue = "fallback"
  /\ config.debug
  /\ finished.ret.error = Boom
\* The breadcrumb configuration of the instance and the context it has
\* computed.
Crumbs == config.breadcrumbConfig
Context == cachedBreadcrumbData.entries

\* The configuration is an array whose entries all have the given type
\* (an empty array has no entry that has not).
AllEntries(c, type) ==
  c.shape = "array" /\ \A n \in 1..Len(c.entries) : c.entries[n].type = type

\* The bound argument at a 0-based index, undefined beyond the arguments.
Argument(index) ==
  IF 0 <= index /\ index < Len(args) THEN args[index + 1] ELSE UndefinedValue

Min(x, y) == IF x < y THEN x ELSE y

\* C22: the breadcrumb configuration is classified first match wins: the
\* context of an array of strings only is the key extraction from argument
\* 0; otherwise that of an array of functions only is what the functions
\* give for arguments 0, 1, ..., each invoked on its own argument; otherwise
\* that of an array is the positional/extractor extraction, whatever its
\* length; otherwise that of a plain object is the index-keyed extraction.
C22_Classification ==
  cachedBreadcrumbData.defined =>
    IF AllEntries(Crumbs, "string")
      THEN Context = KeysOfObject(Argument(0), StringsOf(Crumbs.entries)).entries
    ELSE IF AllEntries(Crumbs, "function")
      THEN /\ Context =
                ExtractTransformers(Crumbs.entries, args, config.debug, 1, Nothing).entries
           /\ transformerCalls = CountUp(0, Min(Len(Crumbs.entries), Len(args)))
    ELSE IF Crumbs.shape = "array"
      THEN Context = ExtractFromArray(Crumbs.entries, args, config.debug, 1, Nothing).entries
    ELSE /\ Crumbs.shape = "object"
         /\ Context = ExtractFromObject(Crumbs.entries, args, config.debug, 1, Nothing).entries

\* An array of a string and a function was read position by position: the
\* first argument is stored under the string (a key list would look the
\* string up in the argument) and the function was not invoked.
C22_Witness ==
  /\ DoneFailed("value")
  /\ Crumbs = ArrayConfig(<<StringEntry("first"), FunctionEntry("transformSpy")>>)
  /\ args = <<FirstArg, StringValue("hello")>>
  /\ Context = {<<"first", FirstArg>>}
  /\ transformerCalls = 0

\* The step of the n-th entry of the configuration, and whether the
\* transformer of that entry is invoked and throws.
EntryStep(n) ==
  IF IsTransformerArray(Crumbs)
    THEN TransformerStep(Crumbs.entries[n], n - 1, args, config.debug)
  ELSE IF Crumbs.shape = "array"
    THEN ArrayEntryStep(Crumbs.entries[n], n - 1, args, config.debug)
  ELSE ObjectEntryStep(Crumbs.entries[n], args, config.debug)

EntryFails(n) ==
  LET e == Crumbs.entries[n] IN
  IF IsTransformerArray(Crumbs)
    THEN n - 1 < Len(args) /\ Transformer(e.fn, Argument(n - 1)).threw
  ELSE IF Crumbs.shape = "array"
    THEN /\ e.type = "object"
         /\ 0 <= e.param /\ e.param < Len(args)
         /\ \/ e.has = "transform" /\ Transformer(e.fn, Argument(e.param)).threw
            \/ e.has = "as" /\ PredefinedTransformers(e.as, Argument(e.param), e.param).threw
  ELSE /\ e.type = "function"
       /\ 0 <= ParseInt(e.key) /\ ParseInt(e.key) < Len(args)
       /\ Transformer(e.fn, Argument(ParseInt(e.key))).threw

\* C23: a transformer that throws, custom or predefined, contributes
\* nothing for its own entry and takes nothing away: every key of the
\* context comes from an entry that did not fail, every entry that did not
\* fail has its keys in the context (with its values, unless a later entry
\* gives the same key), and value() returns.  For
\* [{param: 0, as: 'value'}, {param: 1, transform: () => { throw }}] and two
\* arguments the context is { param0_value: <argument 0> }.
C23_TransformerFailureIsolated ==
  /\ finished.kind = "value" => finished.ret.how = "return"
  /\ (cachedBreadcrumbData.defined /\ ~IsStringArray(Crumbs)) =>
       LET N == 1..Len(Crumbs.entries) IN
       /\ \A n \in N : EntryFails(n) => EntryStep(n).entries = {}
       /\ \A p \in Context : \E n \in N : ~EntryFails(n) /\ p \in EntryStep(n).entries
       /\ \A n \in N : ~EntryFails(n) =>
            \A p \in EntryStep(n).entries :
              \/ p \in Context
              \/ \E k \in N : k > n /\ \E q \in EntryStep(k).entries : q[1] = p[1]
  /\ (/\ cachedBreadcrumbData.defined
      /\ Crumbs = ArrayConfig(<<AsExtractor(0, "value"),
                                TransformExtractor(1, "throwingTransformer")>>)
      /\ Len(args) = 2) =>
       Context = {<<"param0_value", args[1]>>}

\* value() returned after { param: 0, as: 'toString' } failed on an
\* argument whose toString() throws: the context has the type of
\* argument 1.
C23_Witness ==
  /\ DoneFailed("value")
  /\ Crumbs = ArrayConfig(<<AsExtractor(0, "toString"), AsExtractor(1, "type")>>)
  /\ args = <<HostileValue, FirstArg>>
  /\ EntryFails(1)
  /\ Context = {<<"param1_type", StringValue("object")>>}

\* The parameter index of an extractor object or of an entry of an
\* index-keyed object is inside the arguments.
InRange(e) ==
  LET index == IF Crumbs.shape = "object" THEN ParseInt(e.key) ELSE e.param IN
  0 <= index /\ index < Len(args)

\* C24: an extractor object or an entry of an index-keyed object whose
\* parameter index is not one of 0 .. argCount - 1 contributes nothing and
\* raises nothing: the context is the one of the configuration without
\* these entries.  For the extractors { param: 0, as: 'value' },
\* { param: 5, as: 'value' }, { param: -1, as: 'value' } the context is
\* { param0_value: <argument 0> }.
C24_InvalidIndexSkipped ==
  /\ finished.kind = "value" => finished.ret.how = "return"
  /\ (/\ cachedBreadcrumbData.defined
      /\ AllEntries(Crumbs, "object") \/ Crumbs.shape = "object") =>
       Context =
         Extract([Crumbs EXCEPT !.entries = SelectSeq(Crumbs.entries, InRange)],
                 args, config.debug).entries
  /\ (/\ cachedBreadcrumbData.defined
      /\ Crumbs = ArrayConfig(<<AsExtractor(0, "value"), AsExtractor(5, "value"),
                                AsExtractor(-1, "value")>>)) =>
       Context = IF Len(args) = 0 THEN {} ELSE {<<"param0_value", args[1]>>}

\* value() of a call with two arguments returned with the context of the
\* one extractor whose index is valid.
C24_Witness ==
  /\ DoneFailed("value")
  /\ Crumbs = ArrayConfig(<<AsExtractor(0, "value"), AsExtractor(5, "value"),
                            AsExtractor(-1, "value")>>)
  /\ args = <<StringValue("hello"), FirstArg>>
  /\ Context = {<<"param0_value", StringValue("hello")>>}

\* The listed keys that a value has as properties with a value other than
\* undefined, each with the value of the property.
Copied(v, keys) ==
  {<<keys[n], Get(v, keys[n])>> : n \in {k \in 1..Len(keys) :
     /\ v.kind \in {"object", "hostile"}
     /\ \E p \in v.props : p[1] = keys[k] /\ p[2].kind # "undefined"}}

\* C25: key extraction copies obj[key] of a listed key exactly when it is
\* not undefined (a missing key and a key set to undefined are left out, a
\* key set to null is kept), and for an absent or non-object argument it
\* gives the empty map: for a key list, and for a configuration of one
\* string list, one { param, keys } extractor or one index-keyed key list.
C25_KeyExtraction ==
  /\ finished.kind = "value" => finished.ret.how = "return"
  /\ cachedBreadcrumbData.defined =>
       LET e == Crumbs.entries[1] IN
       /\ (AllEntries(Crumbs, "string") /\ Len(Crumbs.entries) > 0) =>
            Context = Copied(Argument(0), StringsOf(Crumbs.entries))
       /\ (Len(Crumbs.entries) = 1 /\ Crumbs.shape = "array" /\ e.type = "array") =>
            Context = Copied(Argument(0), e.keys)
       /\ (Len(Crumbs.entries) = 1 /\ Crumbs.shape = "array" /\ e.has = "keys") =>
            Context = Copied(Argument(e.param), e.keys)
       /\ (Len(Crumbs.entries) = 1 /\ Crumbs.shape = "object" /\ e.type = "array") =>
            Context = Copied(Argument(ParseInt(e.key)), e.keys)

\* The keys userId, name, email and missing were extracted from
\* { userId: 'u1', name: undefined, email: null }.
C25_Witness ==
  /\ DoneFailed("value")
  /\ Crumbs = KeyList(<<"userId", "name", "email", "missing">>)
  /\ args = <<FirstArg>>
  /\ Context = {<<"userId", StringValue("u1")>>, <<"email", NullValue>>}

\* C26: an empty breadcrumb configuration, array or index-keyed object,
\* gives the empty context, and a failing value() of an instance that has
\* one returns and has emitted breadcrumbs once, with empty data.
C26_EmptyConfiguration ==
  (Crumbs.defined /\ Len(Crumbs.entries) = 0) =>
    /\ cachedBreadcrumbData.defined => Context = {}
    /\ \A c \in CallsTo("addBreadcrumbs") : c.data = [defined |-> TRUE, entries |-> {}]
    /\ DoneFailed("value") =>
         /\ finished.ret.how = "return"
         /\ addBreadcrumbsCalls = 1
         /\ cachedBreadcrumbData = [defined |-> TRUE, entries |-> {}]
         /\ finished.call = 1 => Len(reporterCalls) = 1

\* A second value() of an instance with breadcrumbs([]) returned, and the
\* breadcrumbs were emitted once.
C26_Witness ==
  /\ DoneFailed("value")
  /\ finished.call = 0
  /\ Crumbs = ArrayConfig(<<>>)
  /\ addBreadcrumbsCalls = 1
  /\ Context = {}

\* The cleanup callback threw in the step that led to this state.
CleanupThrew == IF ops[1].pc = "reported" THEN ops[1].cbThrew ELSE finished.cbThrew

\* C27: with debug off nothing is written to console.error, whether the
\* callable fails, the cleanup callback fails or a breadcrumb transformer
\* fails; with debug on, the step in which the callable's failure is stored
\* logs the raw error, and the step in which the cleanup callback fails
\* logs it with the prefix 'Error in finally callback'.
C27_DebugLogging ==
  /\ [](~config.debug => consoleCalls = <<>>)
  /\ [][(config.debug /\ state = "pending" /\ state' = "executed"
           /\ ~cachedResult'.success) =>
          (consoleCalls' # <<>> /\ consoleCalls'[1] = ConsoleCall("", cachedResult'.error))]_vars
  /\ [][(config.debug /\ cbDone' = cbDone + 1 /\ CleanupThrew') =>
          \E n \in 1..Len(consoleCalls') :
            consoleCalls'[n] = ConsoleCall("Error in finally callback", CleanupError)]_vars

\* With debug on, one step logged the callable's error, the failure of the
\* cleanup callback and the failure of a transformer.
C27_Witness ==
  /\ config.debug
  /\ DoneFailed("value")
  /\ finished.cbThrew
  /\ consoleCalls =
       <<ConsoleCall("", Boom), ConsoleCall("Error in finally callback", CleanupError),
         ConsoleCall("Error in breadcrumb transformer:", TransformationError)>>

\* C28: under any interleaving of terminal operations the cached outcome,
\* once set, is never replaced, and every terminal operation works on it.
C28_OutcomeNeverOverwritten ==
  /\ [][cachedResult.id # 0 => cachedResult' = cachedResult]_vars
  /\ [](Done => finished.result.id = 1)

\* C29: the execution state is PENDING or EXECUTED, a step never takes it
\* from EXECUTED back to PENDING, and while it is EXECUTED the cached
\* outcome is present, under any interleaving of terminal operations.
C29_StateOneWay ==
  /\ [](/\ state \in {"pending", "executed"}
        /\ state = "executed" => cachedResult.id # 0)
  /\ [][state = "executed" => state' = "executed"]_vars

\* The instance is executed while a terminal operation that was called
\* before the outcome was stored is still suspended in its callable.
C29_Witness ==
  /\ state = "executed"
  /\ cachedResult.id = 1
  /\ \E i \in Ops : ops[i].pc = "awaitFn" /\ ops[i].call = 2

\* C30: with sequential terminal calls, when unwrap() of a failed call
\* finds a message configured, Reporter.report is called in a step in which
\* the callable has settled and its failure is stored, every invocation of
\* the cleanup callback has completed, and breadcrumbs, if configured, have
\* been emitted, in that step before the report or earlier; the throw comes
\* in a later step, and only out of an unwrap() that has reported.
C30_ReportBeforeThrow ==
  /\ []((ops[1].kind = "unwrap" /\ ops[1].pc = "reported" /\ reporterCalls # <<>>) =>
          /\ state = "executed" /\ cachedResult.id = 1 /\ ~cachedResult.success
          /\ cbDone = cbStarted
          /\ Len(reporterCalls) = IF ops[1].crumbs THEN 2 ELSE 1
          /\ reporterCalls[Len(reporterCalls)].method = "report"
          /\ ops[1].crumbs => reporterCalls[1].method = "addBreadcrumbs"
          /\ config.breadcrumbConfig.defined => breadcrumbsAdded)
  /\ [][(finished'.kind = "unwrap" /\ finished'.ret.how = "throw"
           /\ Truthy(finished'.message)) =>
          /\ ops[1].kind = "unwrap" /\ ops[1].pc = "reported"
          /\ finished'.reports = 1
          /\ CallsTo("report")' = {}
          /\ finished'.crumbs = 1 => addBreadcrumbsCalls >= 1]_vars

\* unwrap() threw after the cleanup callback completed, the breadcrumbs were
\* emitted and the failure was reported.
C30_Witness ==
  /\ DoneFailed("unwrap")
  /\ finished.ret.how = "throw"
  /\ finished.reports = 1
  /\ finished.crumbs = 1
  /\ cbStarted = 1 /\ cbDone = 1

\* C31: the throw-through allow-list is read when unwrap() throws, not when
\* the instance was constructed or executed: an unwrap() of a failed outcome
\* throws the original error exactly if no message is configured or the
\* error's name is in the list as it is at the throw, also where
\* throwThroughErrorTypes() replaced the list after the callable ran.
C31_AllowListReadAtThrow ==
  DoneFailed("unwrap") =>
    LET wrap == Truthy(config.message)
                /\ ~InList(finished.result.error.name, ignoreErrorTypes) IN
    /\ finished.ret.how = "throw"
    /\ finished.wraps = IF wrap THEN 1 ELSE 0
    /\ finished.ret.error =
         IF wrap THEN CreateWrappedError(finished.result.error, config.message)
                 ELSE finished.result.error

\* An unwrap() served from the cache throws the original error, named in a
\* list that was installed after the callable ran; under the list of that
\* time the error would have been wrapped.
C31_Witness ==
  /\ DoneFailed("unwrap") /\ finished.call = 0
  /\ Truthy(config.message)
  /\ ignoreAtExecution = <<>>
  /\ InList(finished.result.error.name, ignoreErrorTypes)
  /\ finished.ret.error = finished.result.error


\* C32: the reporter calls of an instance are made on the reporter that is
\* the process-wide default when the call is made.  The default is the
\* no-op reporter until setDefaultReporter() is called; setDefaultReporter()
\* itself calls no reporter; every later report, addBreadcrumbs and
\* createWrappedError call is made on the reporter it installed, and the
\* no-op reporter calls nothing further.
C32_ReporterOfCallTime ==
  /\ defaultReporter = NoopReporter
  /\ [](reporterCalls # <<>> => reporterUsed = defaultReporter)
  /\ [](reporterCalls = <<>> => reporterUsed = "none" /\ sentryCalls = <<>>)
  /\ [](reporterUsed = NoopReporter => sentryCalls = <<>>)
  /\ [][defaultReporter' # defaultReporter => reporterCalls' = <<>>]_vars

\* An unwrap() served from the cache, on an instance constructed under the
\* no-op reporter, has its createWrappedError call made on the Sentry
\* reporter installed since.
C32_Witness ==
  /\ DoneFailed("unwrap") /\ finished.call = 0
  /\ reporterUsed = SentryReporter
  /\ CallsTo("createWrappedError") # {}


\* Sentry.addBreadcrumb calls among the Sentry SDK calls of the latest step.
IsAddBreadcrumb(c) == c.method = "addBreadcrumb"
BreadcrumbsAddedToBackend == Len(SelectSeq(sentryCalls, IsAddBreadcrumb))

\* C33: with the SentryReporter as default reporter, a failing value() or
\* unwrap() with a message and a non-empty breadcrumb context, the first
\* operation of the instance to emit its breadcrumbs, adds exactly one
\* breadcrumb to the backend.
C33_OneBreadcrumbInBackend ==
  (/\ ops[1].pc = "reported" /\ ops[1].kind \in {"value", "unwrap"}
   /\ reporterUsed = SentryReporter
   /\ ops[1].crumbs
   /\ Context # {}) =>
    BreadcrumbsAddedToBackend = 1


\* Reporter.report calls among the reporter calls of the latest step.
IsReport(c) == c.method = "report"
ReportCalls == SelectSeq(reporterCalls, IsReport)

\* The terminal operation that has just ended is a failing invocation of a
\* reporting operation with a message configured.
ReportingInvocation ==
  /\ finished.kind \in {"unwrap", "value", "then"}
  /\ finished.result.id # 0 /\ ~finished.result.success
  /\ Truthy(finished.message)

CallbackRunning == \E i \in Ops : ops[i].pc = "awaitCb" /\ ops[i].cb

\* A terminal operation is called in the step: an idle operation starts, or
\* one that was not in progress has ended.
OperationCalled ==
  \/ \E j \in Ops : ops[j].pc = "idle" /\ ops'[j].pc # "idle"
  \/ finished'.kind # "none" /\ finished'.call \in {0, fnCalls + 1}

\* C35: while the cleanup callback runs, the state is EXECUTED and the
\* outcome is cached; a terminal operation called then, as from inside the
\* callback, returns or throws that cached outcome and invokes neither the
\* callable nor the cleanup callback again.
C35_ReentrantFromCleanup ==
  /\ [](CallbackRunning => state = "executed" /\ cachedResult.id # 0)
  /\ [][(CallbackRunning /\ OperationCalled) =>
          /\ fnCalls' = fnCalls /\ cbStarted' = cbStarted /\ cbDone' = cbDone
          /\ finished'.kind # "none" /\ finished'.call = 0
          /\ finished'.result = cachedResult
          /\ cachedResult' = cachedResult /\ state' = "executed"]_vars

\* result() is called while the only cleanup callback invoked so far is
\* still running, and returns the cached failure.
C35_Witness ==
  /\ CallbackRunning /\ cbStarted = 1 /\ cbDone = 0 /\ fnCalls = 1
  /\ finished.kind = "result" /\ finished.call = 0
  /\ finished.ret.result = cachedResult /\ ~cachedResult.success


\* What a transformer gives when it is applied: its map, or nothing if it
\* throws.
Given(r) == IF r.threw THEN {} ELSE r.entries

\* The partial map that the n-th entry of the configuration is to
\* contribute, by the shape of the configuration: transformer n of a
\* variadic sequence applied to argument n, if there is one; in a
\* positional/extractor array an extractor object applied to the argument
\* at its param, a string naming the argument at the entry's position, a
\* string list copied from the argument at the entry's position; in an
\* index-keyed object the entry applied to the argument its key names.
PartAt(e, index) ==
  IF ~(0 <= index /\ index < Len(args)) THEN {}
  ELSE CASE e.type = "array" \/ e.has = "keys" -> Copied(Argument(index), e.keys)
         [] e.type = "function" \/ e.has = "transform" ->
              Given(Transformer(e.fn, Argument(index)))
         [] e.has = "as" -> Given(PredefinedTransformers(e.as, Argument(index), index))
         [] OTHER -> {}

Part(n) ==
  LET e == Crumbs.entries[n] IN
  IF AllEntries(Crumbs, "function") THEN PartAt(e, n - 1)
  ELSE IF Crumbs.shape = "object" THEN PartAt(e, ParseInt(e.key))
  ELSE CASE e.type = "object" -> PartAt(e, e.param)
         [] e.type = "string" -> {<<e.key, Argument(n - 1)>>}
         [] e.type = "array" -> PartAt(e, n - 1)
         [] OTHER -> {}

\* The entries of the configuration, and whether the key of a pair is given
\* by another entry than the n-th.
Entries == 1..Len(Crumbs.entries)
GivenElsewhere(p, n) == \E k \in Entries \ {n} : \E q \in Part(k) : q[1] = p[1]

\* The configuration is a positional/extractor array: an array that is
\* neither a key list nor a variadic transformer sequence.
PositionalArray ==
  Crumbs.shape = "array" /\ ~AllEntries(Crumbs, "string") /\ ~AllEntries(Crumbs, "function")

\* C36: in a positional/extractor array an extractor object at position i
\* is applied to the argument at its own param, a string at position i
\* stores args[i] under that string, and a string list at position i copies
\* its keys from args[i] and gives nothing if args[i] is not an object:
\* the context holds nothing but what the entries give in this way, and
\* all of it where no other entry gives the same key.
C36_PositionalArray ==
  (cachedBreadcrumbData.defined /\ PositionalArray) =>
    /\ \A p \in Context : \E n \in Entries : p \in Part(n)
    /\ \A n \in Entries : \A p \in Part(n) : GivenElsewhere(p, n) \/ p \in Context
    /\ \A n \in Entries :
         LET e == Crumbs.entries[n] IN
         /\ e.type = "string" => \E p \in Context : p[1] = e.key
         /\ (e.type = "array" /\ Argument(n - 1).kind \notin {"object", "hostile"}) =>
              \A p \in Context : InList(p[1], e.keys) => GivenElsewhere(p, n)

\* [{param: 1, keys: ['userId', 'name']}, {param: 0, as: 'length'}] for the
\* arguments ('hello', {userId: 'u1', ...}): the keys come from argument 1
\* and the length from argument 0.
C36_Witness ==
  /\ DoneFailed("value")
  /\ Crumbs = ArrayConfig(<<KeysExtractor(1, <<"userId", "name">>),
                            AsExtractor(0, "length")>>)
  /\ args = <<StringValue("hello"), FirstArg>>
  /\ Context = {<<"userId", StringValue("u1")>>, <<"param0_length", NumberValue(5)>>}


\* C37: in a variadic transformer sequence transformer i is applied to
\* argument i for the indices below both the number of transformers and
\* the number of arguments, and to nothing else: the transformers are
\* invoked min(transformers, arguments) times, an argument beyond the
\* transformers gives nothing, a transformer beyond the arguments is not
\* invoked, and the context holds what the transformers give for their own
\* arguments, whatever no later one gives again included.
C37_VariadicTransformers ==
  (cachedBreadcrumbData.defined /\ AllEntries(Crumbs, "function")
   /\ Len(Crumbs.entries) > 0) =>
    LET used == 1..Min(Len(Crumbs.entries), Len(args))
        given(n) == Given(Transformer(Crumbs.entries[n].fn, args[n])) IN
    /\ transformerCalls = CountUp(0, Min(Len(Crumbs.entries), Len(args)))
    /\ \A p \in Context : \E n \in used : p \in given(n)
    /\ \A n \in used : \A p \in given(n) :
         \/ p \in Context
         \/ \E k \in used : k > n /\ \E q \in given(k) : q[1] = p[1]

\* breadcrumbs(orderId, transformSpy, transformSpy) for two arguments: the
\* third transformer is not invoked and the context is what the first two
\* give for arguments 0 and 1.
C37_Witness ==
  /\ DoneFailed("value")
  /\ Crumbs = TransformerList(<<"orderId", "transformSpy", "transformSpy">>)
  /\ args = <<StringValue("hello"), FirstArg>>
  /\ transformerCalls = 2
  /\ Context = {<<"orderId", StringValue("hello")>>, <<"transformed", FirstArg>>}


\* The keys that the entries of the configuration give, and the last entry
\* that gives a key.
GivenKeys == {q[1] : q \in UNION {Part(n) : n \in Entries}}
LastGiving(key) ==
  CHOOSE n \in Entries :
    /\ \E q \in Part(n) : q[1] = key
    /\ \A k \in Entries : k > n => \A q \in Part(k) : q[1] # key

\* C38: the context is the union of the partial maps of the entries merged
\* in the order of the configuration: it has exactly the keys that some
\* entry gives, one value for each, and of a key that two entries give the
\* value of the later entry, in a variadic sequence, a positional/extractor
\* array and an index-keyed object alike; a key list is one step, and its
\* context is that step's map.
C38_LaterEntryWins ==
  cachedBreadcrumbData.defined =>
    IF AllEntries(Crumbs, "string") /\ Len(Crumbs.entries) > 0
      THEN Context = Copied(Argument(0), StringsOf(Crumbs.entries))
      ELSE /\ {p[1] : p \in Context} = GivenKeys
           /\ \A p, q \in Context : p[1] = q[1] => p = q
           /\ \A p \in Context : p \in Part(LastGiving(p[1]))

\* The index-keyed object { 0: transformSpy, 1: transformSpy } for two
\* arguments: both entries give the key `transformed`, and the context has
\* the value of entry 1.
C38_Witness ==
  /\ DoneFailed("value")
  /\ Crumbs = ObjectConfig(<<MapEntry("0", FunctionEntry("transformSpy")),
                             MapEntry("1", FunctionEntry("transformSpy"))>>)
  /\ args = <<StringValue("hello"), FirstArg>>
  /\ Part(1) = {<<"transformed", StringValue("hello")>>}
  /\ Context = {<<"transformed", FirstArg>>}

====
